---- MODULE Spec2Model ----
(***************************************************************************)
(* A model of the office desk booking portal: the in-memory ledger         *)
(* (mockBookings, mockWaitlist), the simulated API service whose           *)
(* operations run in timer callbacks, the data seeding done when the App   *)
(* mounts, and the associate and admin views that call the service.        *)
(*                                                                         *)
(* Dates.  A JavaScript Date is modelled by its day number (days since     *)
(* 1970-01-01, local calendar); a date string "YYYY-MM-DD" is modelled by  *)
(* the integer YYYYMMDD, which orders as the string does.                  *)
(* formatDateToYMD and the parse new Date(str + 'T12:00:00') convert       *)
(* between the two.                                                        *)
(***************************************************************************)
EXTENDS Integers, Sequences, FiniteSets, TLC

VARIABLES
    today,            \* day number of new Date() when the page was loaded
    mockBookings,     \* Booking[]
    mockWaitlist,     \* WaitlistEntry[]
    nextBookingId,
    nextWaitlistId,
    now,              \* the millisecond clock Date.now() reads   
    mounted,          \* how many times App's mount effect ran
    dataVersion,      \* App state
    currentUser,      \* App state: 0 on the login page, else the user's id
    session,          \* counts portal mounts: a continuation of an unmounted view sets no state
    activeView,       \* AdminPortal state
    timers,           \* pending setTimeout callbacks, in registration order
    selectedDates,    \* AssociatePortal state
    monthlyStatus,    \* AssociatePortal state
    isLoading,        \* AssociatePortal state
    error,            \* AssociatePortal state
    successMessage,   \* AssociatePortal state: 0 is '', n is 'Successfully booked n days.'
    adminStatus,      \* AdminCalendarView state monthlyStatus
    adminSelectedDate,\* AdminCalendarView state selectedDate (0 is null)
    dailyDetails,     \* AdminCalendarView state (loaded FALSE is null)
    isDetailsLoading, \* AdminCalendarView state
    adminIsLoading,   \* AdminCalendarView state isLoading
    currentLocationId,\* AdminCalendarView state
    confirmLog,       \* the settled confirmWaitlist promises, in order, each with the
                      \* timestamp of the entry it asked for and the calls pending then
    attempts,         \* how many times handleSubmit ran
    logins,           \* how many times the login form was submitted
    navigations,      \* how many times the admin changed view, location or date, or a user logged out
    strictPending,    \* React.StrictMode, development build: the second run of App's mount effect is due
    aiPending,        \* the session of the AssociatePortal that awaits getAIBookingSuggestion, 0 if none
    aiRequests,       \* how many times handleAiBookingRequest ran
    stats,            \* AdminDashboard state (loaded FALSE is null)
    complianceUsers,  \* AdminToolsView: the nonCompliantUsers of the last report (loaded FALSE: none yet)
    importedUsers,    \* the users importUsersFromCSV pushed to mockUsers, in order
    nextUserId,       \* the id of the next imported user
    file,             \* AdminToolsView state: the CSV file chosen (chosen FALSE is null)
    uploadStatus,     \* AdminToolsView state (loaded FALSE is null)
    storageEvents,    \* how many storage events of other tabs the window received
    isAiLoading,      \* AssociatePortal state
    aiResponse        \* AssociatePortal state: "" for '', "suggestion" for the text the service
                      \* wrote, "fallback" for the apology of getAIBookingSuggestion

vars == <<today, mockBookings, mockWaitlist, nextBookingId, nextWaitlistId, now,
          mounted, dataVersion, currentUser, session, activeView, timers,
          selectedDates, monthlyStatus, isLoading, error, successMessage,
          adminStatus, adminSelectedDate, dailyDetails, isDetailsLoading,
          adminIsLoading, currentLocationId, confirmLog, attempts, logins, navigations,
          strictPending, aiPending, aiRequests, stats, complianceUsers,
          isAiLoading, aiResponse, importedUsers, nextUserId, file, uploadStatus,
          storageEvents>>

-----------------------------------------------------------------------------
(* Bounds of the model *)

\* generated associates (the loop of generateMockUsers runs 1250 times)
NumGenerated == 2
\* desk capacity of the first and of the second location
Capacity1 == 15
Capacity2 == 2
\* handleSubmit runs at most this often
MaxAttempts == 2
\* the login form is submitted at most this often
MaxLogins == 1
\* handleConfirm runs at most this often
MaxConfirms == 2
\* an associate selects at most this many days
MaxSelected == 4
\* the admin changes view, location or date, or a user logs out, at most this often
MaxNavigations == 3
\* handleAiBookingRequest runs at most this often
MaxAiRequests == 2
\* the window receives at most this many storage events
MaxStorageEvents == 1

-----------------------------------------------------------------------------
(* Sequences *)

Range(s) == {s[i] : i \in 1..Len(s)}

\* Array.prototype.filter
Filter(s, keep(_)) == SelectSeq(s, keep)

\* Array.prototype.filter(...).length
Count(s, keep(_)) == Cardinality({i \in 1..Len(s) : keep(s[i])})

\* Array.prototype.splice(i, 1)
RemoveAt(s, i) == SubSeq(s, 1, i - 1) \o SubSeq(s, i + 1, Len(s))

\* Array.prototype.findIndex, 1-based; 0 when nothing matches
FindIndex(s, p(_)) ==
    IF \E i \in 1..Len(s) : p(s[i])
    THEN CHOOSE i \in 1..Len(s) : p(s[i]) /\ \A j \in 1..(i - 1) : ~p(s[j])
    ELSE 0

Reverse(s) == [i \in 1..Len(s) |-> s[Len(s) + 1 - i]]

RotateLeft(s, k) ==
    IF Len(s) = 0 THEN s
    ELSE [i \in 1..Len(s) |-> s[((i - 1 + k) % Len(s)) + 1]]

-----------------------------------------------------------------------------
(* Calendar: the Date arithmetic the program relies on *)

\* day number of the civil date y-m-d, m in 1..12
DaysFromCivil(y, m, d) ==
    CHOOSE n \in {
        LET yy  == IF month <= 2 THEN year - 1 ELSE year
            era == yy \div 400
            yoe == yy - era * 400
            mp  == IF month > 2 THEN month - 3 ELSE month + 9
            doy == (153 * mp + 2) \div 5 + day - 1
            doe == yoe * 365 + yoe \div 4 - yoe \div 100 + doy
        IN  era * 146097 + doe - 719468 : year \in {y}, month \in {m}, day \in {d}} : TRUE

\* the civil date of a day number, as a record
CivilFromDays(z) ==
    CHOOSE c \in {
        LET era == zz \div 146097
            doe == zz - era * 146097
            yoe == (doe - doe \div 1460 + doe \div 36524 - doe \div 146096) \div 365
            doy == doe - (365 * yoe + yoe \div 4 - yoe \div 100)
            mp  == (5 * doy + 2) \div 153
            d   == doy - (153 * mp + 2) \div 5 + 1
            m   == IF mp < 10 THEN mp + 3 ELSE mp - 9
            y   == yoe + era * 400 + (IF m <= 2 THEN 1 ELSE 0)
        IN  [year |-> y, month |-> m, day |-> d] : zz \in {z + 719468}} : TRUE

\* new Date(year, month, day): month is 0-based and both month and day overflow
NewDate(year, month, day) ==
    DaysFromCivil(year + (month \div 12), (month % 12) + 1, 1) + day - 1

\* Date.prototype.getFullYear / getMonth (0-based) / getDate / getDay (0 = Sunday)
GetFullYear(date) == CivilFromDays(date).year
GetMonth(date) == CivilFromDays(date).month - 1
GetDate(date) == CivilFromDays(date).day
GetDay(date) == (date + 4) % 7

\* formatDateToYMD: the date string of a Date
formatDateToYMD(date) ==
    LET c == CivilFromDays(date)
    IN  c.year * 10000 + c.month * 100 + c.day

\* new Date(dateStr + 'T12:00:00'): the Date of a date string
ParseYMD(dateStr) ==
    DaysFromCivil(dateStr \div 10000, (dateStr \div 100) % 100, dateStr % 100)

\* getDaysInMonth: the Dates of a month, in order
getDaysInMonth(year, month) ==
    LET first == NewDate(year, month, 1)
        n     == NewDate(year, month + 1, 1) - first
    IN  [i \in 1..n |-> first + i - 1]

\* getWeek without "|| 7": Sunday counts as day 0 of the week that follows
getWeekSundayFirst(date) ==
    LET dayNum    == GetDay(date)
        d         == date + 4 - dayNum
        yearStart == NewDate(GetFullYear(d), 0, 1)
    IN  ((d - yearStart) + 1 + 6) \div 7

\* getWeek: the week number the submit grouping uses
getWeek(date) ==
    LET dayNum    == IF GetDay(date) = 0 THEN 7 ELSE GetDay(date)
        d         == date + 4 - dayNum
        yearStart == NewDate(GetFullYear(d), 0, 1)
    IN  ((d - yearStart) + 1 + 6) \div 7

\* indianPublicHolidays
indianPublicHolidays(year) ==
    CASE year = 2024 -> {20240126, 20240325, 20240329, 20240411,
                         20240815, 20241002, 20241031, 20241225}
      [] year = 2025 -> {20250126, 20250314, 20250418, 20250331,
                         20250815, 20251002, 20251020, 20251225}
      [] OTHER -> {}

\* getIndianPublicHolidaysForYear: the keys of the holiday map
getIndianPublicHolidaysForYear(year) == indianPublicHolidays(year)

-----------------------------------------------------------------------------
(* Reference data *)

\* the waitlist cap of getMonthlyBookingStatus
WaitlistCap == 20
\* generateMockUsers: a team has this many generated members
TeamSize == 25

\* mockLocations (the first two locations, with scaled capacities)
mockLocations ==
    << [id |-> 1, capacity |-> Capacity1],
       [id |-> 2, capacity |-> Capacity2] >>

\* An email address: its letters without their case (the local part, and the
\* number generateMockUsers appends, -1 for none) and whether it is spelled
\* with capital letters
Email(local, index, caps) == [local |-> local, index |-> index, caps |-> caps]

\* String.prototype.toLowerCase
toLowerCase(email) == [email EXCEPT !.caps = FALSE]

\* generateMockUsers; teamId 0 stands for undefined; the generated first and
\* last names are the first of each list
generateMockUsers ==
    << [id |-> 1, role |-> "admin", locationId |-> 1, teamId |-> 0,
        email |-> Email("priya.sharma", -1, FALSE)],
       [id |-> 2, role |-> "associate", locationId |-> 1, teamId |-> 1,
        email |-> Email("rajesh.kumar", -1, FALSE)] >>
    \o [i \in 1..NumGenerated |->
          [id |-> 101 + (i - 1), role |-> "associate",
           locationId |-> mockLocations[((i - 1) % Len(mockLocations)) + 1].id,
           teamId |-> ((i - 1) \div TeamSize) + 1,
           email |-> Email("sunita.patil", i - 1, FALSE)]]
    \o << [id |-> 2000, role |-> "associate", locationId |-> 1, teamId |-> 1,
           email |-> Email("anjali.desai", -1, FALSE)],
          [id |-> 2001, role |-> "associate", locationId |-> 1, teamId |-> 1,
           email |-> Email("vikram.singh", -1, FALSE)] >>

\* the id generateMockUsers gives the first of the two teammates
FirstTeammateId == 2000

\* the id of the first imported user: generateMockUsers leaves nextUserId at
\* the id after the last generated one
FirstImportedId == 101 + NumGenerated

mockUsers == generateMockUsers

UserIds == {mockUsers[i].id : i \in 1..Len(mockUsers)}
UserById(id) == CHOOSE u \in Range(mockUsers) : u.id = id
LocationById(id) == CHOOSE l \in Range(mockLocations) : l.id = id
LocationIds == {mockLocations[i].id : i \in 1..Len(mockLocations)}

\* mockUsers.filter(u => u.locationId === locationId).map(u => u.id), of the
\* array as importUsersFromCSV has extended it
UsersInLocation(locationId) ==
    {u.id : u \in {v \in Range(mockUsers) \cup Range(importedUsers) :
                      v.locationId = locationId}}

-----------------------------------------------------------------------------
(* seedInitialData *)

\* the first of the month after today: year and 0-based month
NextMonthDate(t) == NewDate(GetFullYear(t), GetMonth(t) + 1, 1)

\* DemoDayFrom that passes over Sundays only
RECURSIVE DemoDayFromSundaysOnly(_, _, _)
DemoDayFromSundaysOnly(year, month, i) ==
    IF i > 7 THEN NewDate(year, month, 3)
    ELSE LET d == NewDate(year, month, i)
         IN  IF GetDay(d) # 0
                /\ formatDateToYMD(d) \notin getIndianPublicHolidaysForYear(year)
             THEN d
             ELSE DemoDayFromSundaysOnly(year, month, i + 1)

\* the representative day: the first working day among the 1st..7th of next
\* month, else the 3rd (the same loop in seedInitialData and getDashboardStats)
RECURSIVE DemoDayFrom(_, _, _)
DemoDayFrom(year, month, i) ==
    IF i > 7 THEN NewDate(year, month, 3)
    ELSE LET d == NewDate(year, month, i)
         IN  IF GetDay(d) # 0 /\ GetDay(d) # 6
                /\ formatDateToYMD(d) \notin getIndianPublicHolidaysForYear(year)
             THEN d
             ELSE DemoDayFrom(year, month, i + 1)

DemoDay(t) ==
    CHOOSE d \in {DemoDayFrom(GetFullYear(nextMonthDate), GetMonth(nextMonthDate), 1) :
                      nextMonthDate \in {NextMonthDate(t)}} : TRUE

\* getNextDayOfWeekInMonth
getNextDayOfWeekInMonth(date, dayOfWeek) ==
    LET diff == dayOfWeek - GetDay(date)
    IN  date + (IF diff <= 0 THEN diff + 7 ELSE diff)

\* [...arr].sort(() => 0.5 - Math.random()): some permutation of arr; the
\* permutations a seeding run draws are a rotation, reversed or not
Shuffle(arr, s) == IF s.rev THEN Reverse(RotateLeft(arr, s.rot)) ELSE RotateLeft(arr, s.rot)

\* Date.now() inside the seeding: the clock advances one millisecond every
\* L.period reads (never when period is 0)
SeedClockAfterRead(L) ==
    [L EXCEPT !.calls = @ + 1,
              !.now = IF L.period > 0 /\ (L.calls + 1) % L.period = 0 THEN @ + 1 ELSE @]

\* addBooking
addBooking(L, userId, dateStr, status) ==
    [L EXCEPT !.bookings = Append(@, [id |-> L.nextBookingId, userId |-> userId,
                                      date |-> dateStr, status |-> status]),
              !.nextBookingId = @ + 1]

\* addWaitlist without its guard: the entry is pushed whether or not the pair has one
addWaitlistUnguarded(L, userId, dateStr) ==
    [SeedClockAfterRead(L) EXCEPT
         !.waitlist = Append(@, [id |-> L.nextWaitlistId, userId |-> userId,
                                 date |-> dateStr, timestamp |-> L.now]),
         !.nextWaitlistId = @ + 1]

\* addWaitlist
addWaitlist(L, userId, dateStr) ==
    IF ~\E i \in 1..Len(L.waitlist) :
            L.waitlist[i].userId = userId /\ L.waitlist[i].date = dateStr
    THEN [SeedClockAfterRead(L) EXCEPT
              !.waitlist = Append(@, [id |-> L.nextWaitlistId, userId |-> userId,
                                      date |-> dateStr, timestamp |-> L.now]),
              !.nextWaitlistId = @ + 1]
    ELSE L

\* A loop over the ledger is a recursion whose every step binds the ledger
\* it produced, {f(L2) : L2 \in {step}}, before the next step uses it.

\* for (let i = 0; i < count; i++) add(shuffled[(offset + i) % shuffled.length], dateStr)
\* with add one of addBooking confirmed, addBooking cancelled, addWaitlist
RECURSIVE seedLoop(_, _, _, _, _, _, _)
seedLoop(L, shuffled, offset, count, i, dateStr, kind) ==
    IF i >= count THEN L
    ELSE LET user == shuffled[((offset + i) % Len(shuffled)) + 1]
         IN  CHOOSE r \in {seedLoop(L2, shuffled, offset, count, i + 1, dateStr, kind) :
                           L2 \in {IF kind = "waitlist" THEN addWaitlist(L, user.id, dateStr)
                                   ELSE addBooking(L, user.id, dateStr, kind)}} : TRUE

allAssociates == Filter(mockUsers, LAMBDA u : u.role = "associate")
associatesInLocation(loc) == Filter(allAssociates, LAMBDA u : u.locationId = loc.id)

\* the demo day scenario of one location
seedDemoDayLocation(L, loc, rnd, dateStr) ==
    LET shuffledAssociates   == Shuffle(associatesInLocation(loc), rnd.shuffle)
        bookingsToMake       == (loc.capacity * 98) \div 100
        cancellationsToMake  == ((rnd.cancel * 5) \div 100) + 3
        waitlistToMake       == ((rnd.wait * 10) \div 100) + 5
    IN  CHOOSE r \in
          {seedLoop(L2, shuffledAssociates, bookingsToMake + cancellationsToMake,
                    waitlistToMake, 0, dateStr, "waitlist") :
             L2 \in {seedLoop(L1, shuffledAssociates, bookingsToMake, cancellationsToMake,
                              0, dateStr, "cancelled") :
                       L1 \in {seedLoop(L, shuffledAssociates, 0, bookingsToMake, 0,
                                        dateStr, "confirmed")}}} : TRUE

\* the collaboration day scenario of one location
seedCollaborationLocation(L, loc, rnd, dateStr) ==
    LET shuffled == Shuffle(associatesInLocation(loc), rnd.shuffle)
        count    == (loc.capacity * (8000 + 15 * rnd.collab)) \div 10000
    IN  seedLoop(L, shuffled, 0, count, 0, dateStr, "confirmed")

\* the focus day scenario of one location
seedFocusLocation(L, loc, rnd, dateStr) ==
    LET shuffled == Shuffle(associatesInLocation(loc), rnd.shuffle)
        count    == (loc.capacity * (1000 + 10 * rnd.focus)) \div 10000
    IN  seedLoop(L, shuffled, 0, count, 0, dateStr, "confirmed")

\* the random data of one location on one other day of the month
RECURSIVE seedRestLoop(_, _, _, _, _, _)
seedRestLoop(L, loc, shuffled, bookingCount, i, dateStr) ==
    IF i >= bookingCount THEN L
    ELSE LET user == shuffled[(i % Len(shuffled)) + 1]
         IN  CHOOSE r \in {seedRestLoop(L2, loc, shuffled, bookingCount, i + 1, dateStr) :
                           L2 \in {IF Count(L.bookings, LAMBDA b : b.date = dateStr
                                                          /\ b.status = "confirmed")
                                        < loc.capacity
                                   THEN addBooking(L, user.id, dateStr, "confirmed")
                                   ELSE addWaitlist(L, user.id, dateStr)}} : TRUE

seedRestLocation(L, loc, rnd, dateStr) ==
    IF Len(associatesInLocation(loc)) = 0 THEN L
    ELSE seedRestLoop(L, loc, Shuffle(associatesInLocation(loc), rnd.shuffle),
                      (loc.capacity * rnd.rest) \div 100, 0, dateStr)

\* mockLocations.forEach(loc => ...) with the body of the named scenario
seedLocation(L, loc, rnd, dateStr, scenario) ==
    CASE scenario = "demo"          -> seedDemoDayLocation(L, loc, rnd, dateStr)
      [] scenario = "collaboration" -> seedCollaborationLocation(L, loc, rnd, dateStr)
      [] scenario = "focus"         -> seedFocusLocation(L, loc, rnd, dateStr)
      [] OTHER                      -> seedRestLocation(L, loc, rnd, dateStr)

RECURSIVE forEachLocation(_, _, _, _, _)
forEachLocation(L, scenario, rnd, dateStr, i) ==
    IF i > Len(mockLocations) THEN L
    ELSE CHOOSE r \in {forEachLocation(L2, scenario, rnd, dateStr, i + 1) :
                       L2 \in {seedLocation(L, mockLocations[i], rnd, dateStr, scenario)}} : TRUE

\* list.forEach(t => addBooking(t, dateStr))
RECURSIVE addBookingAll(_, _, _, _)
addBookingAll(L, list, dateStr, i) ==
    IF i > Len(list) THEN L
    ELSE CHOOSE r \in {addBookingAll(L2, list, dateStr, i + 1) :
                       L2 \in {addBooking(L, list[i].id, dateStr, "confirmed")}} : TRUE

\* daysInMonth.forEach(dayDate => ...): the random data for the rest of the month
RECURSIVE seedRestOfMonth(_, _, _, _, _)
seedRestOfMonth(L, days, skip, rnd, i) ==
    IF i > Len(days) THEN L
    ELSE LET dayDate == days[i]
             dateStr == formatDateToYMD(dayDate)
             year    == GetFullYear(dayDate)
         IN  CHOOSE r \in {seedRestOfMonth(L2, days, skip, rnd, i + 1) :
                           L2 \in {IF dateStr \in skip THEN L
                                   ELSE IF GetDay(dayDate) = 0 \/ GetDay(dayDate) = 6
                                           \/ dateStr \in getIndianPublicHolidaysForYear(year)
                                   THEN L
                                   ELSE forEachLocation(L, "rest", rnd, dateStr, 1)}} : TRUE

\* seedInitialData without its guard: the ledger is reset and seeded on every call
seedInitialDataUnguarded(L, t, rnd) ==
    LET year  == GetFullYear(NextMonthDate(t))
        month == GetMonth(NextMonthDate(t))
        demoDayYMD == formatDateToYMD(DemoDay(t))
        collaborationDate ==
            formatDateToYMD(getNextDayOfWeekInMonth(NewDate(year, month, 7), 2))
        focusDate == formatDateToYMD(getNextDayOfWeekInMonth(NewDate(year, month, 7), 3))
        rajeshTeammates == Filter(mockUsers, LAMBDA u : u.teamId = 1 /\ u.id # 2)
    IN  CHOOSE r \in
          {seedRestOfMonth(L4, getDaysInMonth(year, month),
                           {demoDayYMD, collaborationDate, focusDate}, rnd, 1) :
             L4 \in {forEachLocation(L3, "focus", rnd, focusDate, 1) :
               L3 \in {addBookingAll(L2, rajeshTeammates, collaborationDate, 1) :
                 L2 \in {forEachLocation(L1, "collaboration", rnd, collaborationDate, 1) :
                   L1 \in {forEachLocation(L0, "demo", rnd, demoDayYMD, 1) :
                     L0 \in {[L EXCEPT !.bookings = <<>>, !.waitlist = <<>>]}}}}}} : TRUE

\* seedInitialData: the ledger after the call, from the ledger L before it
seedInitialData(L, t, rnd) ==
    IF Len(L.bookings) > 0 /\ Len(L.waitlist) > 0 THEN L
    ELSE
    LET year  == GetFullYear(NextMonthDate(t))
        month == GetMonth(NextMonthDate(t))
        demoDayYMD == formatDateToYMD(DemoDay(t))
        secondTuesday   == getNextDayOfWeekInMonth(NewDate(year, month, 7), 2)
        secondWednesday == getNextDayOfWeekInMonth(NewDate(year, month, 7), 3)
        collaborationDate == formatDateToYMD(secondTuesday)
        rajeshTeammates == Filter(mockUsers, LAMBDA u : u.teamId = 1 /\ u.id # 2)
        focusDate == formatDateToYMD(secondWednesday)
    IN  CHOOSE r \in
          {seedRestOfMonth(L4, getDaysInMonth(year, month),
                           {demoDayYMD, collaborationDate, focusDate}, rnd, 1) :
             L4 \in {forEachLocation(L3, "focus", rnd, focusDate, 1) :
               L3 \in {addBookingAll(L2, rajeshTeammates, collaborationDate, 1) :
                 L2 \in {forEachLocation(L1, "collaboration", rnd, collaborationDate, 1) :
                   L1 \in {forEachLocation(L0, "demo", rnd, demoDayYMD, 1) :
                     L0 \in {[L EXCEPT !.bookings = <<>>, !.waitlist = <<>>]}}}}}} : TRUE

-----------------------------------------------------------------------------
(* apiService: what each operation computes when its timer fires *)

\* the operations of apiService that run in a timer callback
TimerOperations ==
    {"login", "getMonthlyBookingStatus", "getBookingsForDate", "getDashboardStats",
     "submitBookings", "confirmWaitlist"}


\* DayStatusOf that counts the bookings of the day whatever their status
DayStatusOfAnyStatus(bookings, waitlist, location, dateStr) ==
    LET usersInLocation == UsersInLocation(location.id)
        bookingsOnDate == Count(bookings, LAMBDA b : b.date = dateStr
                                    /\ b.userId \in usersInLocation)
        waitlistOnDate == Count(waitlist, LAMBDA w : w.date = dateStr
                                    /\ w.userId \in usersInLocation)
    IN  [bookings |-> bookingsOnDate,
         waitlist |-> waitlistOnDate,
         isFull |-> bookingsOnDate >= location.capacity,
         isWaitlistFull |-> waitlistOnDate >= WaitlistCap]

\* the DayStatus of one date string
DayStatusOf(bookings, waitlist, location, dateStr) ==
    CHOOSE dayStatus \in {
        LET bookingsOnDate == Count(bookings, LAMBDA b : b.date = dateStr
                                    /\ b.userId \in usersInLocation /\ b.status = "confirmed")
            waitlistOnDate == Count(waitlist, LAMBDA w : w.date = dateStr
                                    /\ w.userId \in usersInLocation)
        IN  [bookings |-> bookingsOnDate,
             waitlist |-> waitlistOnDate,
             isFull |-> bookingsOnDate >= capacity,
             isWaitlistFull |-> waitlistOnDate >= WaitlistCap] :
        usersInLocation \in {UsersInLocation(location.id)},
        capacity \in {location.capacity}} : TRUE

\* the empty object {}
EmptyMap == [d \in {} |-> 0]

\* getMonthlyBookingStatus: a map from the date strings of the month to DayStatus;
\* the empty map for an unknown location
getMonthlyBookingStatus(bookings, waitlist, locationId, year, month) ==
    IF locationId \notin LocationIds THEN EmptyMap
    ELSE CHOOSE status \in {
             [dateStr \in dates |->
                 DayStatusOf(bookings, waitlist, LocationById(locationId), dateStr)] :
             dates \in {LET daysInMonth == GetDate(NewDate(year, month + 1, 0))
                        IN  {year * 10000 + (month + 1) * 100 + day :
                                day \in 1..daysInMonth}}} : TRUE

\* Array.prototype.sort((a, b) => a.timestamp - b.timestamp): a stable sort
RECURSIVE InsertByTimestamp(_, _)
InsertByTimestamp(sorted, e) ==
    CHOOSE r \in {
        IF arr = <<>> THEN <<x>>
        ELSE IF arr[Len(arr)].timestamp <= x.timestamp THEN Append(arr, x)
        ELSE Append(InsertByTimestamp(SubSeq(arr, 1, Len(arr) - 1), x), arr[Len(arr)]) :
        arr \in {sorted}, x \in {e}} : TRUE

RECURSIVE SortByTimestamp(_)
SortByTimestamp(s) ==
    CHOOSE r \in {
        IF arr = <<>> THEN <<>>
        ELSE InsertByTimestamp(SortByTimestamp(SubSeq(arr, 1, Len(arr) - 1)), arr[Len(arr)]) :
        arr \in {s}} : TRUE

\* getBookingsForDate: the users, as user ids in the order of the result arrays
getBookingsForDate(bookings, waitlist, date, locationId) ==
    CHOOSE r \in {
        LET bookedUsers == Filter(mockUsers, LAMBDA u : u.id \in bookedUserIds)
            waitlistedUsers == Filter(mockUsers, LAMBDA u : u.id \in waitlistedUserIds)
        IN  [bookedUsers |-> [i \in 1..Len(bookedUsers) |-> bookedUsers[i].id],
             waitlistedUsers |-> [i \in 1..Len(waitlistedUsers) |-> waitlistedUsers[i].id]] :
        bookedUserIds \in {{b.userId : b \in {x \in Range(bookings) :
                              x.date = date /\ x.userId \in UsersInLocation(locationId)
                              /\ x.status = "confirmed"}}},
        waitlistedUserIds \in {{w.userId : w \in Range(SortByTimestamp(Filter(waitlist,
                                  LAMBDA w2 : w2.date = date
                                      /\ w2.userId \in UsersInLocation(locationId))))}}} : TRUE

\* mockLocations.reduce((sum, loc) => sum + loc.capacity, 0), from the i-th location on
RECURSIVE reduceCapacity(_)
reduceCapacity(i) ==
    IF i > Len(mockLocations) THEN 0
    ELSE mockLocations[i].capacity + reduceCapacity(i + 1)

\* getDashboardStats: the DashboardData resolved when the call is made on day t
getDashboardStats(bookings, waitlist, t) ==
    CHOOSE data \in {
        [loaded |-> TRUE,
         totalCapacity |-> reduceCapacity(1),
         totalBookedToday |->
             Count(bookings, LAMBDA b : b.date = demoDateStr /\ b.status = "confirmed"),
         totalWaitlistedToday |-> Count(waitlist, LAMBDA w : w.date = demoDateStr),
         totalCancellationsToday |->
             Count(bookings, LAMBDA b : b.date = demoDateStr /\ b.status = "cancelled"),
         locationStats |->
             [i \in 1..Len(mockLocations) |->
                 LET loc == mockLocations[i]
                     usersInLocation == UsersInLocation(loc.id)
                 IN  [locationId |-> loc.id,
                      capacity |-> loc.capacity,
                      booked |-> Count(bookings, LAMBDA b :
                          b.date = demoDateStr /\ b.userId \in usersInLocation
                          /\ b.status = "confirmed"),
                      waitlisted |-> Count(waitlist, LAMBDA w :
                          w.date = demoDateStr /\ w.userId \in usersInLocation),
                      cancellationsToday |-> Count(bookings, LAMBDA b :
                          b.date = demoDateStr /\ b.userId \in usersInLocation
                          /\ b.status = "cancelled"),
                      cancellationsMonth |-> Count(bookings, LAMBDA b :
                          GetMonth(ParseYMD(b.date)) = month
                          /\ b.userId \in usersInLocation
                          /\ b.status = "cancelled")]],
         statsForDate |-> demoDateStr] :
        demoDateStr \in {formatDateToYMD(DemoDay(t))},
        month \in {GetMonth(NextMonthDate(t))}} : TRUE

\* importUsersFromCSV: the required headers, in the order they are checked
requiredHeaders == <<"employeeId", "name", "email", "locationName">>

\* errors.slice(0, 5): the message shows this many issues
ShownIssues == 5

\* importUsersFromCSV: the loop over the rows, from row i on.  acc holds the
\* users pushed, existingEmails, nextUserId and errors; a row holds its email
\* and the id of the location its locationName names ignoring case, 0 for none;
\* the line of row i is i + 1
RECURSIVE importRows(_, _, _)
importRows(acc, rows, i) ==
    IF i > Len(rows) THEN acc
    ELSE LET entry == rows[i]
         IN  IF entry.email \in acc.existingEmails
             THEN importRows([acc EXCEPT !.errors = Append(@,
                                 [row |-> i + 1, kind |-> "email exists",
                                  email |-> entry.email])],
                             rows, i + 1)
             ELSE IF entry.locationId \notin LocationIds
             THEN importRows([acc EXCEPT !.errors = Append(@,
                                 [row |-> i + 1, kind |-> "location not found",
                                  email |-> entry.email])],
                             rows, i + 1)
             ELSE importRows([acc EXCEPT
                                 !.pushed = Append(@,
                                     [id |-> acc.nextUserId, role |-> "associate",
                                      locationId |-> entry.locationId,
                                      teamId |-> entry.teamId, email |-> entry.email]),
                                 !.existingEmails = @ \cup {entry.email},
                                 !.nextUserId = @ + 1],
                             rows, i + 1)

\* importUsersFromCSV that imports no row of a file in which a row is skipped
importUsersFromCSVAllOrNothing(users, nextId, csv) ==
    LET missing == FindIndex(requiredHeaders, LAMBDA h : h \notin csv.headers)
        acc == importRows([pushed |-> <<>>,
                           existingEmails |-> {users[k].email : k \in 1..Len(users)},
                           nextUserId |-> nextId, errors |-> <<>>],
                          csv.rows, 1)
        kept == IF Len(acc.errors) > 0 THEN <<>> ELSE acc.pushed
    IN  IF missing # 0
        THEN [pushed |-> <<>>, nextUserId |-> nextId,
              result |-> [loaded |-> TRUE, success |-> FALSE,
                          missingHeader |-> requiredHeaders[missing],
                          newUsersAdded |-> 0, issues |-> 0, shown |-> <<>>,
                          more |-> FALSE]]
        ELSE [pushed |-> kept, nextUserId |-> nextId + Len(kept),
              result |-> [loaded |-> TRUE, success |-> Len(kept) > 0,
                          missingHeader |-> "",
                          newUsersAdded |-> Len(kept), issues |-> Len(acc.errors),
                          shown |-> SubSeq(acc.errors, 1,
                                           IF Len(acc.errors) > ShownIssues
                                           THEN ShownIssues ELSE Len(acc.errors)),
                          more |-> Len(acc.errors) > ShownIssues]]

\* importUsersFromCSV: the users it pushes to mockUsers (users, before the
\* call), nextUserId after the call and the result it resolves with
importUsersFromCSV(users, nextId, csv) ==
    LET missing == FindIndex(requiredHeaders, LAMBDA h : h \notin csv.headers)
        acc == importRows([pushed |-> <<>>,
                           existingEmails |-> {users[k].email : k \in 1..Len(users)},
                           nextUserId |-> nextId, errors |-> <<>>],
                          csv.rows, 1)
    IN  IF missing # 0
        THEN [pushed |-> <<>>, nextUserId |-> nextId,
              result |-> [loaded |-> TRUE, success |-> FALSE,
                          missingHeader |-> requiredHeaders[missing],
                          newUsersAdded |-> 0, issues |-> 0, shown |-> <<>>,
                          more |-> FALSE]]
        ELSE [pushed |-> acc.pushed, nextUserId |-> acc.nextUserId,
              result |-> [loaded |-> TRUE, success |-> Len(acc.pushed) > 0,
                          missingHeader |-> "",
                          newUsersAdded |-> Len(acc.pushed), issues |-> Len(acc.errors),
                          shown |-> SubSeq(acc.errors, 1,
                                           IF Len(acc.errors) > ShownIssues
                                           THEN ShownIssues ELSE Len(acc.errors)),
                          more |-> Len(acc.errors) > ShownIssues]]

\* apiService.login: the user it resolves with, 0 when it rejects
login(users, email, role) ==
    LET k == FindIndex(users, LAMBDA u : toLowerCase(u.email) = toLowerCase(email)
                                          /\ u.role = role)
    IN  IF k = 0 THEN 0 ELSE users[k].id

\* submitBookings that books a date only while the location of the user has a free desk
RECURSIVE submitBookingsWithinCapacity(_, _, _, _)
submitBookingsWithinCapacity(L, userId, dates, i) ==
    IF i > Len(dates) THEN L
    ELSE LET booked == Cardinality({k \in 1..Len(L.bookings) :
                           /\ L.bookings[k].date = dates[i]
                           /\ L.bookings[k].status = "confirmed"
                           /\ UserById(L.bookings[k].userId).locationId
                                  = UserById(userId).locationId})
         IN  CHOOSE r \in {submitBookingsWithinCapacity(L2, userId, dates, i + 1) :
                           L2 \in {IF booked >= LocationById(UserById(userId).locationId).capacity
                                   THEN L
                                   ELSE addBooking(L, userId, dates[i], "confirmed")}} : TRUE

\* submitBookings: dates.forEach(date => mockBookings.push(...))
RECURSIVE submitBookings(_, _, _, _)
submitBookings(L, userId, dates, i) ==
    IF i > Len(dates) THEN L
    ELSE submitBookings(addBooking(L, userId, dates[i], "confirmed"), userId, dates, i + 1)

\* submitBookings: the message of its result, `Successfully booked ${dates.length} days.`
submitMessage(dates) == Len(dates)

\* confirmWaitlist that splices the entry and pushes no booking
confirmWaitlistSpliceOnly(L, userId, date) ==
    LET waitlistIndex == FindIndex(L.waitlist, LAMBDA w : w.userId = userId /\ w.date = date)
    IN  IF waitlistIndex > 0
        THEN [ledger |-> [L EXCEPT !.waitlist = RemoveAt(@, waitlistIndex)], ok |-> TRUE]
        ELSE [ledger |-> L, ok |-> FALSE]

\* confirmWaitlist that pushes the booking before it looks for the entry
confirmWaitlistPushFirst(L, userId, date) ==
    LET waitlistIndex == FindIndex(L.waitlist, LAMBDA w : w.userId = userId /\ w.date = date)
    IN  IF waitlistIndex > 0
        THEN [ledger |-> addBooking([L EXCEPT !.waitlist = RemoveAt(@, waitlistIndex)],
                                    userId, date, "confirmed"),
              ok |-> TRUE]
        ELSE [ledger |-> addBooking(L, userId, date, "confirmed"), ok |-> FALSE]

\* confirmWaitlist that promotes the oldest entry of the date at the user's
\* location, whoever was named
confirmWaitlistHead(L, userId, date) ==
    LET waitlistIndex == FindIndex(L.waitlist, LAMBDA w : w.userId = userId /\ w.date = date)
        queue == {i \in 1..Len(L.waitlist) :
                     /\ L.waitlist[i].date = date
                     /\ UserById(L.waitlist[i].userId).locationId = UserById(userId).locationId}
        head == CHOOSE i \in queue : \A j \in queue :
                    \/ L.waitlist[i].timestamp < L.waitlist[j].timestamp
                    \/ L.waitlist[i].timestamp = L.waitlist[j].timestamp /\ i <= j
    IN  IF waitlistIndex > 0
        THEN [ledger |-> addBooking([L EXCEPT !.waitlist = RemoveAt(@, head)],
                                    L.waitlist[head].userId, date, "confirmed"),
              ok |-> TRUE]
        ELSE [ledger |-> L, ok |-> FALSE]

\* confirmWaitlist that pushes the booking and leaves the entry on the waitlist
confirmWaitlistKeepsEntry(L, userId, date) ==
    LET waitlistIndex == FindIndex(L.waitlist, LAMBDA w : w.userId = userId /\ w.date = date)
    IN  IF waitlistIndex > 0
        THEN [ledger |-> addBooking(L, userId, date, "confirmed"), ok |-> TRUE]
        ELSE [ledger |-> L, ok |-> FALSE]

\* confirmWaitlist: the ledger after the call; ok tells resolve from reject
confirmWaitlist(L, userId, date) ==
    LET waitlistIndex == FindIndex(L.waitlist, LAMBDA w : w.userId = userId /\ w.date = date)
    IN  IF waitlistIndex > 0
        THEN [ledger |-> addBooking([L EXCEPT !.waitlist = RemoveAt(@, waitlistIndex)],
                                    userId, date, "confirmed"),
              ok |-> TRUE]
        ELSE [ledger |-> L, ok |-> FALSE]

-----------------------------------------------------------------------------
(* The views.  U is the state every view handler and effect works on.      *)

Ledger ==
    [bookings |-> mockBookings, waitlist |-> mockWaitlist,
     nextBookingId |-> nextBookingId, nextWaitlistId |-> nextWaitlistId,
     now |-> now, calls |-> 0, period |-> 0]

SetLedger(L) ==
    \E M \in {L} :
        /\ mockBookings' = M.bookings
        /\ mockWaitlist' = M.waitlist
        /\ nextBookingId' = M.nextBookingId
        /\ nextWaitlistId' = M.nextWaitlistId

U0 ==
    [dataVersion |-> dataVersion, currentUser |-> currentUser, session |-> session,
     activeView |-> activeView, timers |-> timers, now |-> now,
     selectedDates |-> selectedDates, monthlyStatus |-> monthlyStatus,
     isLoading |-> isLoading, error |-> error, successMessage |-> successMessage,
     adminStatus |-> adminStatus, adminSelectedDate |-> adminSelectedDate,
     dailyDetails |-> dailyDetails, isDetailsLoading |-> isDetailsLoading,
     adminIsLoading |-> adminIsLoading, currentLocationId |-> currentLocationId,
     stats |-> stats, complianceUsers |-> complianceUsers,
     isAiLoading |-> isAiLoading, aiResponse |-> aiResponse]

SetU(U) ==
    \E V \in {U} :
        /\ dataVersion' = V.dataVersion
        /\ currentUser' = V.currentUser
        /\ session' = V.session
        /\ activeView' = V.activeView
        /\ timers' = V.timers
        /\ now' = V.now
        /\ selectedDates' = V.selectedDates
        /\ monthlyStatus' = V.monthlyStatus
        /\ isLoading' = V.isLoading
        /\ error' = V.error
        /\ successMessage' = V.successMessage
        /\ adminStatus' = V.adminStatus
        /\ adminSelectedDate' = V.adminSelectedDate
        /\ dailyDetails' = V.dailyDetails
        /\ isDetailsLoading' = V.isDetailsLoading
        /\ adminIsLoading' = V.adminIsLoading
        /\ currentLocationId' = V.currentLocationId
        /\ stats' = V.stats
        /\ complianceUsers' = V.complianceUsers
        /\ isAiLoading' = V.isAiLoading
        /\ aiResponse' = V.aiResponse

\* dailyDetails === null
NullDetails == [loaded |-> FALSE, bookedUsers |-> <<>>, waitlistedUsers |-> <<>>]

\* file === null and uploadStatus === null
NullFile == [chosen |-> FALSE]
NullUpload == [loaded |-> FALSE]

\* stats === null, and no compliance report generated yet
NullStats == [loaded |-> FALSE]
NullReport == [loaded |-> FALSE, nonCompliantUsers |-> <<>>]

\* the state of an unmounted view is the initial state of its next mount
ResetViews(U) ==
    [U EXCEPT !.activeView = "none",
              !.selectedDates = <<>>, !.monthlyStatus = EmptyMap, !.isLoading = TRUE,
              !.error = "", !.successMessage = 0,
              !.adminStatus = EmptyMap, !.adminSelectedDate = 0,
              !.dailyDetails = NullDetails, !.isDetailsLoading = FALSE,
              !.adminIsLoading = TRUE, !.currentLocationId = 0,
              !.stats = NullStats, !.complianceUsers = NullReport,
              !.isAiLoading = FALSE, !.aiResponse = ""]

\* setTimeout(callback, delay): the callback of a service call, with the view
\* instance (session) whose continuation awaits it.  reg is the clock at the
\* call; age is a lower bound of the milliseconds the timer has been pending;
\* older[j] is a lower bound of the milliseconds between the call that set
\* the j-th pending timer and this call
Timer(U, kind, delay, client, userId, dates, date, locationId) ==
    [kind |-> kind, delay |-> delay, reg |-> U.now, session |-> U.session,
     client |-> client, userId |-> userId, dates |-> dates, date |-> date,
     locationId |-> locationId, age |-> 0,
     older |-> [j \in 1..Len(U.timers) |-> U.timers[j].age]]

Register(U, t) == [U EXCEPT !.timers = Append(@, t)]

\* the pending timers once the i-th has fired: it was pending for its delay,
\* so a timer set before it has been pending that much longer than it had
\* been when the i-th was set
Fired(pending, i) ==
    [j \in 1..(Len(pending) - 1) |->
        IF j < i
        THEN [pending[j] EXCEPT
                 !.age = IF pending[i].older[j] + pending[i].delay > @
                         THEN pending[i].older[j] + pending[i].delay ELSE @]
        ELSE [pending[j + 1] EXCEPT !.older = RemoveAt(@, i)]]

\* the month the views show: initialDate, the first of next month
currentDate == NextMonthDate(today)

\* AssociatePortal: the fetchStatus effect
fetchStatus(U) ==
    Register([U EXCEPT !.isLoading = TRUE],
             Timer(U, "getMonthlyBookingStatus", 300, "associate", 0, <<>>, 0,
                   UserById(U.currentUser).locationId))

\* AdminCalendarView: the fetchStatusAndSetDefaultDate effect
fetchStatusAndSetDefaultDate(U) ==
    Register([U EXCEPT !.adminIsLoading = TRUE],
             Timer(U, "getMonthlyBookingStatus", 300, "admin", 0, <<>>, 0,
                   U.currentLocationId))

\* AdminCalendarView: the fetchDetails effect
fetchDetails(U) ==
    IF U.adminSelectedDate = 0 THEN [U EXCEPT !.dailyDetails = NullDetails]
    ELSE Register([U EXCEPT !.isDetailsLoading = TRUE],
                  Timer(U, "getBookingsForDate", 400, "admin", 0, <<>>,
                        U.adminSelectedDate, U.currentLocationId))

\* AdminDashboard: the fetchAllData effect
fetchAllData(U) ==
    Register(U, Timer(U, "getDashboardStats", 500, "admin", 0, <<>>, 0, 0))

\* the effects that depend on dataVersion, of the view that is mounted
dataVersionEffects(U) ==
    IF U.currentUser = 0 THEN U
    ELSE IF UserById(U.currentUser).role = "associate" THEN fetchStatus(U)
    ELSE IF U.activeView = "dashboard" THEN fetchAllData(U)
    ELSE IF U.activeView = "calendar" THEN fetchDetails(fetchStatusAndSetDefaultDate(U))
    ELSE U

\* App.handleDataChange, with newVersion the value Date.now() returns
handleDataChange(U, newVersion) ==
    IF newVersion = U.dataVersion THEN U
    ELSE dataVersionEffects([U EXCEPT !.dataVersion = newVersion])

\* App.handleStorageChange for an event of SYNC_STORAGE_KEY: setDataVersion(Number(newValue))
handleStorageChange(U, newValue) ==
    IF newValue = U.dataVersion THEN U
    ELSE dataVersionEffects([U EXCEPT !.dataVersion = newValue])

\* onLoginSuccess: the portal of the user mounts
mountPortal(U, userId) ==
    LET U1 == [ResetViews(U) EXCEPT !.currentUser = userId, !.session = @ + 1]
    IN  IF UserById(userId).role = "associate" THEN fetchStatus(U1)
        ELSE fetchAllData([U1 EXCEPT !.activeView = "dashboard"])

\* AdminPortal: setActiveView mounts the view chosen
mountAdminView(U, view) ==
    LET U1 == [ResetViews(U) EXCEPT !.activeView = view, !.session = @ + 1]
    IN  IF view = "dashboard" THEN fetchAllData(U1)
        ELSE fetchDetails(fetchStatusAndSetDefaultDate(
                 [U1 EXCEPT !.currentLocationId = UserById(U.currentUser).locationId]))

-----------------------------------------------------------------------------
(* AssociatePortal *)

\* Calendar, viewMode associate: canClick of the day dateStr of the month shown
canClick(status, dateStr) ==
    LET date == ParseYMD(dateStr)
        st == IF dateStr \in DOMAIN status THEN status[dateStr]
              ELSE [bookings |-> 0, waitlist |-> 0, isFull |-> FALSE, isWaitlistFull |-> FALSE]
        isPast == date < currentDate
        isWeekend == GetDay(date) = 0 \/ GetDay(date) = 6
        isSelectableHoliday ==
            dateStr \in getIndianPublicHolidaysForYear(GetFullYear(currentDate))
    IN  ~isPast /\ ~isWeekend /\ ~isSelectableHoliday /\ ~(st.isFull /\ st.isWaitlistFull)

\* handleDateClick: toggles the date in the selection
handleDateClick(prev, dateStr) ==
    IF dateStr \in Range(prev) THEN Filter(prev, LAMBDA d : d # dateStr)
    ELSE Append(prev, dateStr)

\* handleSubmit: datesByWeek[weekNum], the selected dates of one week in selection order
datesByWeek(selection, weekNum) ==
    Filter(selection, LAMBDA dateStr : getWeek(ParseYMD(dateStr)) = weekNum)

\* handleSubmit: the Sunday the week of a group starts on
firstDayOfWeekOf(group) == ParseYMD(group[1]) - GetDay(ParseYMD(group[1]))

\* weekFails with a minimum of two days
weekFailsBelowTwo(group, status, shown) ==
    LET firstDayOfWeek == firstDayOfWeekOf(group)
        isAnyDayInWeekCompletelyFull ==
            \E i \in 0..6 :
                LET dateStr == formatDateToYMD(firstDayOfWeek + i)
                IN  /\ dateStr \in DOMAIN status
                    /\ status[dateStr].isFull
                    /\ status[dateStr].isWaitlistFull
    IN  /\ GetMonth(firstDayOfWeek) = GetMonth(shown)
        /\ GetMonth(firstDayOfWeek + 6) = GetMonth(shown)
        /\ ~isAnyDayInWeekCompletelyFull
        /\ Len(group) < 2

\* weekFails that waives the minimum for a week with a day that is full,
\* whatever its waitlist
weekFailsWaivedWhenFull(group, status, shown) ==
    LET firstDayOfWeek == firstDayOfWeekOf(group)
        isAnyDayInWeekFull ==
            \E i \in 0..6 :
                LET dateStr == formatDateToYMD(firstDayOfWeek + i)
                IN  dateStr \in DOMAIN status /\ status[dateStr].isFull
    IN  /\ GetMonth(firstDayOfWeek) = GetMonth(shown)
        /\ GetMonth(firstDayOfWeek + 6) = GetMonth(shown)
        /\ ~isAnyDayInWeekFull
        /\ Len(group) < 3

\* weekFails that applies the minimum to the weeks that reach into another month too
weekFailsPartialWeeks(group, status, shown) ==
    LET firstDayOfWeek == firstDayOfWeekOf(group)
        isAnyDayInWeekCompletelyFull ==
            \E i \in 0..6 :
                LET dateStr == formatDateToYMD(firstDayOfWeek + i)
                IN  /\ dateStr \in DOMAIN status
                    /\ status[dateStr].isFull
                    /\ status[dateStr].isWaitlistFull
    IN  ~isAnyDayInWeekCompletelyFull /\ Len(group) < 3

\* handleSubmit: whether the group of one week fails the weekly minimum
weekFails(group, status, shown) ==
    LET firstDayOfWeek == firstDayOfWeekOf(group)
        lastDayOfWeek == firstDayOfWeek + 6
        isAnyDayInWeekCompletelyFull ==
            \E i \in 0..6 :
                LET dateStr == formatDateToYMD(firstDayOfWeek + i)
                IN  /\ dateStr \in DOMAIN status
                    /\ status[dateStr].isFull
                    /\ status[dateStr].isWaitlistFull
    IN  /\ GetMonth(firstDayOfWeek) = GetMonth(shown)
        /\ GetMonth(lastDayOfWeek) = GetMonth(shown)
        /\ ~isAnyDayInWeekCompletelyFull
        /\ Len(group) < 3

\* handleSubmit: the weekly validation; the week numbers are visited in
\* ascending order (integer keys of an object) and the first failing week
\* ends the handler.  The result is the Sunday of that week, -1 if none fails
weeklyValidation(selection, status, shown) ==
    LET weeks == {getWeek(ParseYMD(selection[i])) : i \in 1..Len(selection)}
        failing == {w \in weeks : weekFails(datesByWeek(selection, w), status, shown)}
    IN  IF failing = {} THEN -1
        ELSE firstDayOfWeekOf(datesByWeek(selection,
                 CHOOSE w \in failing : \A v \in failing : w <= v))

\* handleSubmit that, when a week fails, still submits the dates of the other weeks
handleSubmitPartial(U) ==
    LET U1 == [U EXCEPT !.error = "", !.successMessage = 0]
        passing == Filter(U.selectedDates, LAMBDA dateStr :
                       ~weekFails(datesByWeek(U.selectedDates, getWeek(ParseYMD(dateStr))),
                                  U.monthlyStatus, currentDate))
    IN  IF Len(U.selectedDates) = 0 THEN [U1 EXCEPT !.error = "none selected"]
        ELSE IF weeklyValidation(U.selectedDates, U.monthlyStatus, currentDate) # -1
        THEN IF Len(passing) = 0 THEN [U1 EXCEPT !.error = "weekly minimum"]
             ELSE Register([U1 EXCEPT !.error = "weekly minimum", !.isLoading = TRUE],
                           Timer(U, "submitBookings", 500, "associate", U.currentUser,
                                 passing, 0, 0))
        ELSE Register([U1 EXCEPT !.isLoading = TRUE],
                      Timer(U, "submitBookings", 500, "associate", U.currentUser,
                            U.selectedDates, 0, 0))

\* handleSubmit, up to the await
handleSubmit(U) ==
    LET U1 == [U EXCEPT !.error = "", !.successMessage = 0]
    IN  IF Len(U.selectedDates) = 0 THEN [U1 EXCEPT !.error = "none selected"]
        ELSE IF weeklyValidation(U.selectedDates, U.monthlyStatus, currentDate) # -1
        THEN [U1 EXCEPT !.error = "weekly minimum"]
        ELSE Register([U1 EXCEPT !.isLoading = TRUE],
                      Timer(U, "submitBookings", 500, "associate", U.currentUser,
                            U.selectedDates, 0, 0))

\* handleSubmit, after the await: the booking succeeded
submitContinuation(U, t, newVersion) ==
    LET U1 == IF t.session = U.session
              THEN [U EXCEPT !.successMessage = submitMessage(t.dates), !.selectedDates = <<>>,
                             !.isLoading = FALSE]
              ELSE U
    IN  handleDataChange(U1, newVersion)

\* handleAiBookingRequest, up to the await of getAIBookingSuggestion
handleAiBookingRequest(U) ==
    [U EXCEPT !.isAiLoading = TRUE, !.aiResponse = "", !.error = "", !.successMessage = 0]

\* getAIBookingSuggestion: what it resolves with.  The call of the service
\* throws, or its text is not JSON (kind "failed"): the catch block answers
\* with no dates and the apology; the text is JSON (kind "parsed"): the parsed
\* value is returned as it is, an object (isObject) or null
getAIBookingSuggestion(outcome) ==
    IF outcome.kind = "failed"
    THEN [isObject |-> TRUE, datesToBook |-> <<>>, suggestion |-> "fallback"]
    ELSE [isObject |-> outcome.isObject, datesToBook |-> outcome.datesToBook,
          suggestion |-> "suggestion"]

\* aiContinuation that takes over the dates of the result even when there are none
aiContinuationEmptySelection(U, requester, result) ==
    IF requester # U.session THEN U
    ELSE IF ~result.isObject THEN U
    ELSE [U EXCEPT !.aiResponse = result.suggestion, !.isAiLoading = FALSE,
                   !.selectedDates = result.datesToBook]

\* handleAiBookingRequest, after the await, with the result of
\* getAIBookingSuggestion; result.suggestion of null throws and the handler ends
aiContinuation(U, requester, result) ==
    IF requester # U.session THEN U
    ELSE IF ~result.isObject THEN U
    ELSE LET U1 == [U EXCEPT !.aiResponse = result.suggestion, !.isAiLoading = FALSE]
         IN  IF Len(result.datesToBook) > 0
             THEN [U1 EXCEPT !.selectedDates = result.datesToBook]
             ELSE U1

-----------------------------------------------------------------------------
(* AdminCalendarView *)

\* fetchStatusAndSetDefaultDate: firstDayToSelect, 0 for undefined
firstDayToSelect(status) ==
    CHOOSE first \in {
        LET found == {dateStr \in DOMAIN status :
                         LET day == ParseYMD(dateStr)
                         IN  /\ day >= firstOfThisMonth
                             /\ GetDay(day) # 0 /\ GetDay(day) # 6
                             /\ dateStr \notin holidays
                             /\ (status[dateStr].bookings > 0 \/ status[dateStr].waitlist > 0)}
        IN  IF found = {} THEN 0 ELSE CHOOSE d \in found : \A e \in found : d <= e :
        holidays \in {getIndianPublicHolidaysForYear(GetFullYear(currentDate))},
        firstOfThisMonth \in {NewDate(GetFullYear(currentDate), GetMonth(currentDate), 1)}} : TRUE

\* fetchStatusAndSetDefaultDate, after the await
statusContinuation(U, t, status) ==
    IF t.session # U.session THEN U
    ELSE IF t.client = "associate"
    THEN [U EXCEPT !.monthlyStatus = status, !.isLoading = FALSE]
    ELSE CHOOSE U2 \in {
             IF U1.adminSelectedDate # U.adminSelectedDate THEN fetchDetails(U1) ELSE U1 :
             U1 \in {[U EXCEPT !.adminStatus = newStatus, !.adminIsLoading = FALSE,
                               !.adminSelectedDate = firstDayToSelect(newStatus)] :
                         newStatus \in {status}}} : TRUE

\* fetchDetails, after the await
detailsContinuation(U, t, details) ==
    IF t.session # U.session THEN U
    ELSE [U EXCEPT !.dailyDetails = [loaded |-> TRUE,
                                     bookedUsers |-> details.bookedUsers,
                                     waitlistedUsers |-> details.waitlistedUsers],
                   !.isDetailsLoading = FALSE]

\* AdminDashboard: fetchAllData, after the await of getDashboardStats
dashboardContinuation(U, t, result) ==
    IF t.session # U.session THEN U ELSE [U EXCEPT !.stats = result]

\* the compliance threshold of AdminToolsView
ComplianceThreshold == 10

\* handleGenerateComplianceReport with the threshold itself counted as non-compliant
nonCompliantUsersAtMostThreshold(bookings, t) ==
    LET lastMonthDate == NewDate(GetFullYear(t), GetMonth(t), 0)
        year == GetFullYear(lastMonthDate)
        month == GetMonth(lastMonthDate)
        lastMonthBookings == Filter(bookings, LAMBDA b :
            /\ b.status = "confirmed"
            /\ GetFullYear(ParseYMD(b.date)) = year
            /\ GetMonth(ParseYMD(b.date)) = month)
        userBookingCounts(userId) == Count(lastMonthBookings, LAMBDA b : b.userId = userId)
        listed == Filter(Filter(mockUsers, LAMBDA u : u.role = "associate"),
                         LAMBDA u : userBookingCounts(u.id) <= ComplianceThreshold)
    IN  [i \in 1..Len(listed) |->
            [userId |-> listed[i].id, bookingCount |-> userBookingCounts(listed[i].id)]]

\* AdminToolsView.handleGenerateComplianceReport on day t: the nonCompliantUsers
\* it hands to getComplianceReport, in the order of mockUsers
nonCompliantUsers(bookings, t) ==
    LET lastMonthDate == NewDate(GetFullYear(t), GetMonth(t), 0)
        year == GetFullYear(lastMonthDate)
        month == GetMonth(lastMonthDate)
        lastMonthBookings == Filter(bookings, LAMBDA b :
            /\ b.status = "confirmed"
            /\ GetFullYear(ParseYMD(b.date)) = year
            /\ GetMonth(ParseYMD(b.date)) = month)
        userBookingCounts(userId) == Count(lastMonthBookings, LAMBDA b : b.userId = userId)
        listed == Filter(Filter(mockUsers, LAMBDA u : u.role = "associate"),
                         LAMBDA u : userBookingCounts(u.id) < ComplianceThreshold)
    IN  [i \in 1..Len(listed) |->
            [userId |-> listed[i].id, bookingCount |-> userBookingCounts(listed[i].id)]]

\* the Confirm button of a waitlisted user is shown and enabled
confirmEnabled(U, userId) ==
    /\ U.activeView = "calendar"
    /\ ~U.isDetailsLoading
    /\ U.adminSelectedDate # 0
    /\ U.dailyDetails.loaded
    /\ userId \in Range(U.dailyDetails.waitlistedUsers)
    /\ Len(U.dailyDetails.bookedUsers) < LocationById(U.currentLocationId).capacity

\* handleConfirm, up to the await
handleConfirm(U, userId) ==
    IF U.adminSelectedDate = 0 THEN U
    ELSE Register([U EXCEPT !.isDetailsLoading = TRUE],
                  Timer(U, "confirmWaitlist", 300, "admin", userId, <<>>,
                        U.adminSelectedDate, 0))

\* confirmContinuation whose success path does not call onDataChange
confirmContinuationNoSignal(U, t, ok, newVersion) ==
    IF ok THEN U
    ELSE IF t.session = U.session THEN [U EXCEPT !.isDetailsLoading = FALSE]
    ELSE U

\* handleConfirm, after the await
confirmContinuation(U, t, ok, newVersion) ==
    IF ok THEN handleDataChange(U, newVersion)
    ELSE IF t.session = U.session THEN [U EXCEPT !.isDetailsLoading = FALSE]
    ELSE U

\* handleLocationChange
handleLocationChange(U, locationId) ==
    fetchDetails(fetchStatusAndSetDefaultDate(
        [U EXCEPT !.currentLocationId = locationId, !.adminSelectedDate = 0,
                  !.dailyDetails = NullDetails]))

\* AdminCalendarView.handleDateClick
adminHandleDateClick(U, dateStr) ==
    IF dateStr = U.adminSelectedDate THEN U
    ELSE fetchDetails([U EXCEPT !.adminSelectedDate = dateStr])

-----------------------------------------------------------------------------
(* Inputs *)

\* the days the page is loaded on, as date strings
Todays == {20250215}

\* what Math.random() and the clock give one seeding run: the permutation the
\* sorts produce, the draws in hundredths, and the reads per clock tick
Shuffles == {[rot |-> 0, rev |-> FALSE], [rot |-> 1, rev |-> TRUE]}
Draws == {0, 50}
Periods == {1, 2}
SeedInput(s, r, p) ==
    [shuffle |-> s, cancel |-> r, wait |-> r, collab |-> r, focus |-> r, rest |-> r,
     period |-> p]
SeedInputs == {SeedInput(s, r, p) : s \in Shuffles, r \in Draws, p \in Periods}

\* the seeding run and the build of each page load: a production build with
\* every seeding run, a development build (StrictMode runs the mount effect
\* twice) with one
MountInputs ==
    {[rnd |-> r, strict |-> FALSE] : r \in SeedInputs}
        \cup {[rnd |-> SeedInput([rot |-> 0, rev |-> FALSE], 0, 1), strict |-> TRUE]}

\* the users who log in
LoginUsers == {1, 2, 102}

\* the date string of a day of the month shown
DateOfDay(day) ==
    GetFullYear(currentDate) * 10000 + (GetMonth(currentDate) + 1) * 100 + day

\* what getAIBookingSuggestion answers with: nothing, three days of one week
\* the third of which is the 15th, or the 31st alone
AiSuggestions ==
    {<<>>, <<DateOfDay(10), DateOfDay(11), DateOfDay(15)>>, <<DateOfDay(31)>>}

\* how a call of the text generation service ends: it fails; its text parses
\* to an object with the dates of AiSuggestions; its text is the JSON null
AiOutcomes ==
    {[kind |-> "failed", isObject |-> FALSE, datesToBook |-> <<>>],
     [kind |-> "parsed", isObject |-> FALSE, datesToBook |-> <<>>]}
        \cup {[kind |-> "parsed", isObject |-> TRUE, datesToBook |-> d] : d \in AiSuggestions}

\* the days of the month an associate clicks on, and those the admin clicks on
ClickDays == {3, 10, 11, 12}
AdminClickDays == {3, 11}

-----------------------------------------------------------------------------
(* The state machine *)

Init ==
    /\ importedUsers = <<>>
    /\ today \in {ParseYMD(t) : t \in Todays}
    /\ mockBookings = <<>>
    /\ mockWaitlist = <<>>
    /\ nextBookingId = 1
    /\ nextWaitlistId = 1
    /\ now = 0
    /\ mounted = 0
    /\ dataVersion = 0
    /\ currentUser = 0
    /\ session = 0
    /\ activeView = "none"
    /\ timers = <<>>
    /\ selectedDates = <<>>
    /\ monthlyStatus = EmptyMap
    /\ isLoading = TRUE
    /\ error = ""
    /\ successMessage = 0
    /\ adminStatus = EmptyMap
    /\ adminSelectedDate = 0
    /\ dailyDetails = NullDetails
    /\ isDetailsLoading = FALSE
    /\ adminIsLoading = TRUE
    /\ currentLocationId = 0
    /\ confirmLog = <<>>
    /\ attempts = 0
    /\ logins = 0
    /\ navigations = 0
    /\ strictPending = FALSE
    /\ aiPending = 0
    /\ aiRequests = 0
    /\ stats = NullStats
    /\ complianceUsers = NullReport
    /\ isAiLoading = FALSE
    /\ aiResponse = ""
    /\ nextUserId = FirstImportedId
    /\ file = NullFile
    /\ uploadStatus = NullUpload
    /\ storageEvents = 0

IsAssociate == currentUser # 0 /\ UserById(currentUser).role = "associate"
IsAdmin == currentUser # 0 /\ UserById(currentUser).role = "admin"

PendingKind(kind) == {i \in 1..Len(timers) : timers[i].kind = kind}

\* App's mount effect: seedInitialData(); handleDataChange().  In a development
\* build React.StrictMode runs the effect a second time right after the first
AppMount ==
    /\ mounted = 0
    /\ \E load \in MountInputs :
         /\ \E L \in {seedInitialData([Ledger EXCEPT !.period = load.rnd.period], today, load.rnd)} :
               /\ SetLedger(L)
               /\ SetU(handleDataChange([U0 EXCEPT !.now = L.now], L.now))
         /\ strictPending' = load.strict
    /\ mounted' = mounted + 1
    /\ UNCHANGED <<today, storageEvents, importedUsers, nextUserId, file, uploadStatus, aiPending, aiRequests, confirmLog, attempts, logins, navigations>>

\* React.StrictMode, development build: the mount effect is cleaned up and run
\* again before any event is handled; the two runs share a millisecond
StrictModeRemount ==
    /\ strictPending
    /\ \E rnd \in SeedInputs :
         \E L \in {seedInitialData([Ledger EXCEPT !.period = rnd.period], today, rnd)} :
            /\ SetLedger(L)
            /\ SetU(handleDataChange([U0 EXCEPT !.now = L.now], L.now))
    /\ strictPending' = FALSE
    /\ mounted' = mounted + 1
    /\ UNCHANGED <<today, storageEvents, importedUsers, nextUserId, file, uploadStatus, aiPending, aiRequests, confirmLog, attempts, logins, navigations>>

\* LoginPage.handleSubmit with the credentials of a user
HandleLogin ==
    /\ mounted > 0 /\ ~strictPending
    /\ currentUser = 0
    /\ PendingKind("login") = {}
    /\ logins < MaxLogins
    /\ \E u \in LoginUsers :
         SetU(Register(U0, Timer(U0, "login", 500, "login", u, <<>>, 0, 0)))
    /\ logins' = logins + 1
    /\ UNCHANGED <<today, storageEvents, importedUsers, nextUserId, file, uploadStatus, strictPending, aiPending, aiRequests,
                   mockBookings, mockWaitlist, nextBookingId, nextWaitlistId,
                   mounted, confirmLog, attempts, navigations>>

\* App.handleLogout
HandleLogout ==
    /\ currentUser # 0
    /\ navigations < MaxNavigations
    /\ SetU([ResetViews(U0) EXCEPT !.currentUser = 0, !.session = @ + 1])
    /\ navigations' = navigations + 1
    /\ UNCHANGED <<today, storageEvents, importedUsers, nextUserId, file, uploadStatus, strictPending, aiPending, aiRequests,
                   mockBookings, mockWaitlist, nextBookingId, nextWaitlistId,
                   mounted, confirmLog, attempts, logins>>

\* AdminPortal: a click on the navigation
SetActiveView ==
    /\ IsAdmin
    /\ navigations < MaxNavigations
    /\ \E view \in {"dashboard", "calendar"} :
         /\ view # activeView
         /\ SetU(mountAdminView(U0, view))
    /\ navigations' = navigations + 1
    /\ UNCHANGED <<today, storageEvents, importedUsers, nextUserId, file, uploadStatus, strictPending, aiPending, aiRequests,
                   mockBookings, mockWaitlist, nextBookingId, nextWaitlistId,
                   mounted, confirmLog, attempts, logins>>

\* AdminCalendarView: the location selector
HandleLocationChange ==
    /\ IsAdmin /\ activeView = "calendar"
    /\ navigations < MaxNavigations
    /\ \E l \in LocationIds :
         /\ l # currentLocationId
         /\ SetU(handleLocationChange(U0, l))
    /\ navigations' = navigations + 1
    /\ UNCHANGED <<today, storageEvents, importedUsers, nextUserId, file, uploadStatus, strictPending, aiPending, aiRequests,
                   mockBookings, mockWaitlist, nextBookingId, nextWaitlistId,
                   mounted, confirmLog, attempts, logins>>

\* AdminCalendarView: a click on a day of the calendar
AdminDateClick ==
    /\ IsAdmin /\ activeView = "calendar"
    /\ ~adminIsLoading
    /\ navigations < MaxNavigations
    /\ \E day \in AdminClickDays :
         /\ DateOfDay(day) # adminSelectedDate
         /\ SetU(adminHandleDateClick(U0, DateOfDay(day)))
    /\ navigations' = navigations + 1
    /\ UNCHANGED <<today, storageEvents, importedUsers, nextUserId, file, uploadStatus, strictPending, aiPending, aiRequests,
                   mockBookings, mockWaitlist, nextBookingId, nextWaitlistId,
                   mounted, confirmLog, attempts, logins>>

\* AdminCalendarView: a click on the Confirm button of a waitlisted user
HandleConfirm ==
    /\ IsAdmin
    /\ Len(confirmLog) + Cardinality(PendingKind("confirmWaitlist")) < MaxConfirms
    /\ \E u \in UserIds :
         /\ confirmEnabled(U0, u)
         /\ SetU(handleConfirm(U0, u))
    /\ UNCHANGED <<today, storageEvents, importedUsers, nextUserId, file, uploadStatus, strictPending, aiPending, aiRequests,
                   mockBookings, mockWaitlist, nextBookingId, nextWaitlistId,
                   mounted, confirmLog, attempts, logins, navigations>>

\* AssociatePortal: a click on a day of the calendar
AssociateDateClick ==
    /\ IsAssociate
    /\ ~isLoading
    /\ \E day \in ClickDays :
         /\ canClick(monthlyStatus, DateOfDay(day))
         /\ DateOfDay(day) \in Range(selectedDates) \/ Len(selectedDates) < MaxSelected
         /\ selectedDates' = handleDateClick(selectedDates, DateOfDay(day))
    /\ UNCHANGED <<today, storageEvents, importedUsers, nextUserId, file, uploadStatus, strictPending, aiPending, aiRequests, mockBookings, mockWaitlist,
                   nextBookingId, nextWaitlistId, now,
                   mounted, dataVersion, currentUser, session, activeView, timers,
                   monthlyStatus, isLoading, error, successMessage, adminStatus,
                   adminSelectedDate, dailyDetails, isDetailsLoading, adminIsLoading,
                   currentLocationId, confirmLog, attempts, logins, navigations,
                   stats, complianceUsers, isAiLoading, aiResponse>>

\* AssociatePortal: a click on the submit button
HandleSubmit ==
    /\ IsAssociate
    /\ ~isLoading /\ Len(selectedDates) # 0
    /\ attempts < MaxAttempts
    /\ SetU(handleSubmit(U0))
    /\ attempts' = attempts + 1
    /\ UNCHANGED <<today, storageEvents, importedUsers, nextUserId, file, uploadStatus, strictPending, aiPending, aiRequests,
                   mockBookings, mockWaitlist, nextBookingId, nextWaitlistId,
                   mounted, confirmLog, logins, navigations>>

\* AssociatePortal: the Ask AI button, with a prompt typed in
HandleAiBookingRequest ==
    /\ IsAssociate
    /\ ~isAiLoading /\ aiPending = 0
    /\ aiRequests < MaxAiRequests
    /\ SetU(handleAiBookingRequest(U0))
    /\ aiPending' = session
    /\ aiRequests' = aiRequests + 1
    /\ UNCHANGED <<today, storageEvents, importedUsers, nextUserId, file, uploadStatus, strictPending, mockBookings, mockWaitlist, nextBookingId,
                   nextWaitlistId, mounted, confirmLog, attempts, logins, navigations>>

\* the answer of the text generation service arrives
AiSuggestionArrives ==
    /\ aiPending # 0
    /\ \E outcome \in AiOutcomes :
         SetU(aiContinuation(U0, aiPending, getAIBookingSuggestion(outcome)))
    /\ aiPending' = 0
    /\ UNCHANGED <<today, storageEvents, importedUsers, nextUserId, file, uploadStatus, strictPending, aiRequests, mockBookings, mockWaitlist,
                   nextBookingId, nextWaitlistId, mounted, confirmLog, attempts, logins,
                   navigations>>

\* timers fire in the order of their expiry, and in the order they were set
\* when they expire together: the i-th pending timer may fire when every
\* timer set before it may expire later than it
CanFire(i) ==
    \A j \in 1..(i - 1) : timers[i].older[j] + timers[i].delay < timers[j].delay

\* the clock when the timer fires: later than when it was registered
ClockAtFire(t) == IF t.reg + 1 > now THEN t.reg + 1 ELSE now

\* what Date.now() may return in the callback: the clock, or a millisecond
\* more when the clock was not just advanced
DateNowAtFire(t) == IF t.reg + 1 > now THEN {t.reg + 1} ELSE {now, now + 1}

\* the timestamp of the first waitlist entry of the pair, -1 if it has none
EntryTimestamp(waitlist, userId, date) ==
    LET k == FindIndex(waitlist, LAMBDA w : w.userId = userId /\ w.date = date)
    IN  IF k > 0 THEN waitlist[k].timestamp ELSE -1

FireLogin(i) ==
    /\ timers[i].kind = "login"
    /\ SetU(mountPortal([U0 EXCEPT !.timers = Fired(@, i), !.now = ClockAtFire(timers[i])],
                        timers[i].userId))
    /\ UNCHANGED <<mockBookings, mockWaitlist, nextBookingId, nextWaitlistId, confirmLog>>

FireGetMonthlyBookingStatus(i) ==
    /\ timers[i].kind = "getMonthlyBookingStatus"
    /\ SetU(statusContinuation(
               [U0 EXCEPT !.timers = Fired(@, i), !.now = ClockAtFire(timers[i])],
               timers[i],
               getMonthlyBookingStatus(mockBookings, mockWaitlist, timers[i].locationId,
                                       GetFullYear(currentDate), GetMonth(currentDate))))
    /\ UNCHANGED <<mockBookings, mockWaitlist, nextBookingId, nextWaitlistId, confirmLog>>

FireGetBookingsForDate(i) ==
    /\ timers[i].kind = "getBookingsForDate"
    /\ SetU(detailsContinuation(
               [U0 EXCEPT !.timers = Fired(@, i), !.now = ClockAtFire(timers[i])],
               timers[i],
               getBookingsForDate(mockBookings, mockWaitlist, timers[i].date,
                                  timers[i].locationId)))
    /\ UNCHANGED <<mockBookings, mockWaitlist, nextBookingId, nextWaitlistId, confirmLog>>

FireGetDashboardStats(i) ==
    /\ timers[i].kind = "getDashboardStats"
    /\ SetU(dashboardContinuation(
               [U0 EXCEPT !.timers = Fired(@, i), !.now = ClockAtFire(timers[i])],
               timers[i],
               getDashboardStats(mockBookings, mockWaitlist, today)))
    /\ UNCHANGED <<mockBookings, mockWaitlist, nextBookingId, nextWaitlistId, confirmLog>>

FireSubmitBookings(i) ==
    /\ timers[i].kind = "submitBookings"
    /\ SetLedger(submitBookings(Ledger, timers[i].userId, timers[i].dates, 1))
    /\ \E newVersion \in DateNowAtFire(timers[i]) :
         SetU(submitContinuation(
                 [U0 EXCEPT !.timers = Fired(@, i), !.now = newVersion],
                 timers[i], newVersion))
    /\ UNCHANGED confirmLog

\* the confirmWaitlist calls still pending when the i-th timer fires: the
\* user and the date of each
OverlappingConfirms(i) ==
    [j \in PendingKind("confirmWaitlist") \ {i} |->
        [userId |-> timers[j].userId, date |-> timers[j].date]]

\* FireConfirmWaitlist whose promise settles only when the pair is on the
\* waitlist: no rejection for a missing entry
FireConfirmWaitlistNeverRejects(i) ==
    /\ timers[i].kind = "confirmWaitlist"
    /\ \E r \in {confirmWaitlist(Ledger, timers[i].userId, timers[i].date)} :
           /\ r.ok
           /\ SetLedger(r.ledger)
           /\ confirmLog' = Append(confirmLog,
                  [ok |-> r.ok, userId |-> timers[i].userId, date |-> timers[i].date,
                   timestamp |-> EntryTimestamp(mockWaitlist, timers[i].userId,
                                                timers[i].date),
                   overlapping |-> OverlappingConfirms(i)])
           /\ \E newVersion \in DateNowAtFire(timers[i]) :
                SetU(confirmContinuation(
                        [U0 EXCEPT !.timers = Fired(@, i), !.now = newVersion],
                        timers[i], r.ok, newVersion))

FireConfirmWaitlist(i) ==
    /\ timers[i].kind = "confirmWaitlist"
    /\ \E r \in {confirmWaitlist(Ledger, timers[i].userId, timers[i].date)} :
           /\ SetLedger(r.ledger)
           /\ confirmLog' = Append(confirmLog,
                  [ok |-> r.ok, userId |-> timers[i].userId, date |-> timers[i].date,
                   timestamp |-> EntryTimestamp(mockWaitlist, timers[i].userId,
                                                timers[i].date),
                   overlapping |-> OverlappingConfirms(i)])
           /\ \E newVersion \in (IF r.ok THEN DateNowAtFire(timers[i])
                                 ELSE {ClockAtFire(timers[i])}) :
                SetU(confirmContinuation(
                        [U0 EXCEPT !.timers = Fired(@, i), !.now = newVersion],
                        timers[i], r.ok, newVersion))

\* a pending timer fires: the service operation runs and the awaiting handler continues
FireTimer ==
    /\ \E i \in 1..Len(timers) :
         /\ CanFire(i)
         /\ \/ FireLogin(i)
            \/ FireGetMonthlyBookingStatus(i)
            \/ FireGetBookingsForDate(i)
            \/ FireGetDashboardStats(i)
            \/ FireSubmitBookings(i)
            \/ FireConfirmWaitlist(i)
    /\ UNCHANGED <<today, storageEvents, importedUsers, nextUserId, file, uploadStatus, strictPending, aiPending, aiRequests, mounted, attempts, logins, navigations>>

Next ==
    \/ AppMount
    \/ StrictModeRemount
    \/ HandleLogin
    \/ HandleLogout
    \/ SetActiveView
    \/ HandleLocationChange
    \/ AdminDateClick
    \/ HandleConfirm
    \/ AssociateDateClick
    \/ HandleSubmit
    \/ FireTimer

Spec == Init /\ [][Next]_vars

\* the associate who lets the AI assistant select the days: the page loads,
\* a user logs in, asks the assistant and submits what it selected
AiNext ==
    \/ AppMount
    \/ StrictModeRemount
    \/ HandleLogin
    \/ HandleAiBookingRequest
    \/ AiSuggestionArrives
    \/ HandleSubmit
    \/ FireTimer

AiSpec == Init /\ [][AiNext]_vars

\* The service operations under the scheduling of the browser: a timer that
\* has expired has its callback run.  The page has been loaded, with one
\* seeding run; the administrator works in the calendar of one location and
\* in the dashboard, the associate submits what the assistant selected.
LiveSeed == SeedInput([rot |-> 0, rev |-> FALSE], 0, 1)

LiveInit ==
    /\ importedUsers = <<>>
    /\ today \in {ParseYMD(t) : t \in Todays}
    /\ \E L \in {seedInitialData([bookings |-> <<>>, waitlist |-> <<>>, nextBookingId |-> 1,
                                   nextWaitlistId |-> 1, now |-> 0, calls |-> 0,
                                   period |-> LiveSeed.period],
                                  today, LiveSeed)} :
          /\ mockBookings = L.bookings
          /\ mockWaitlist = L.waitlist
          /\ nextBookingId = L.nextBookingId
          /\ nextWaitlistId = L.nextWaitlistId
          /\ now = L.now
          /\ dataVersion = L.now
    /\ mounted = 1
    /\ currentUser = 0
    /\ session = 0
    /\ activeView = "none"
    /\ timers = <<>>
    /\ selectedDates = <<>>
    /\ monthlyStatus = EmptyMap
    /\ isLoading = TRUE
    /\ error = ""
    /\ successMessage = 0
    /\ adminStatus = EmptyMap
    /\ adminSelectedDate = 0
    /\ dailyDetails = NullDetails
    /\ isDetailsLoading = FALSE
    /\ adminIsLoading = TRUE
    /\ currentLocationId = 0
    /\ confirmLog = <<>>
    /\ attempts = 0
    /\ logins = 0
    /\ navigations = 0
    /\ strictPending = FALSE
    /\ aiPending = 0
    /\ aiRequests = 0
    /\ stats = NullStats
    /\ complianceUsers = NullReport
    /\ isAiLoading = FALSE
    /\ aiResponse = ""
    /\ nextUserId = FirstImportedId
    /\ file = NullFile
    /\ uploadStatus = NullUpload
    /\ storageEvents = 0

LiveNext ==
    \/ HandleLogin
    \/ SetActiveView
    \/ AdminDateClick
    \/ HandleConfirm
    \/ HandleAiBookingRequest
    \/ AiSuggestionArrives
    \/ HandleSubmit
    \/ FireTimer

LiveSpec == LiveInit /\ [][LiveNext]_vars /\ WF_vars(FireTimer)

-----------------------------------------------------------------------------
(* The weekly validation of handleSubmit on its own.  It reads the selection, *)
(* the monthlyStatus the portal holds and the month shown; here the month    *)
(* and the status are inputs, the selection is clicked together, and the     *)
(* ledger, which the validation does not read, is left empty.                *)

\* the days the page is loaded on: the months shown are March 2025, which
\* begins on a Saturday, and September 2025, which begins on a Monday
ValidationTodays == {20250215, 20250815}

\* a DayStatus of each kind, for a location
StatusOfKind(kind, location) ==
    [bookings |-> IF kind \in {"exhausted", "full"} THEN location.capacity ELSE 0,
     waitlist |-> IF kind \in {"exhausted", "waitlistFull"} THEN WaitlistCap ELSE 0,
     isFull |-> kind \in {"exhausted", "full"},
     isWaitlistFull |-> kind \in {"exhausted", "waitlistFull"}]

\* the days of the month whose status is an input
StatusDays == {4, 13}

\* what getMonthlyBookingStatus may have answered for the month after t at the
\* location: every day free, or one day exhausted, only full or only
\* waitlist-full
StatusInputs(t, locationId) ==
    LET year  == GetFullYear(NextMonthDate(t))
        month == GetMonth(NextMonthDate(t))
        free  == getMonthlyBookingStatus(<<>>, <<>>, locationId, year, month)
    IN  {free} \cup
        {[free EXCEPT ![year * 10000 + (month + 1) * 100 + day] =
                          StatusOfKind(kind, LocationById(locationId))] :
            kind \in {"exhausted", "full", "waitlistFull"}, day \in StatusDays}

\* the associate whose portal is shown
ValidationUser == 2

ValidationInit ==
    /\ importedUsers = <<>>
    /\ today \in {ParseYMD(t) : t \in ValidationTodays}
    /\ mockBookings = <<>>
    /\ mockWaitlist = <<>>
    /\ nextBookingId = 1
    /\ nextWaitlistId = 1
    /\ now = 0
    /\ mounted = 1
    /\ dataVersion = 0
    /\ currentUser = ValidationUser
    /\ session = 1
    /\ activeView = "none"
    /\ timers = <<>>
    /\ selectedDates = <<>>
    /\ monthlyStatus \in StatusInputs(today, UserById(ValidationUser).locationId)
    /\ isLoading = FALSE
    /\ error = ""
    /\ successMessage = 0
    /\ adminStatus = EmptyMap
    /\ adminSelectedDate = 0
    /\ dailyDetails = NullDetails
    /\ isDetailsLoading = FALSE
    /\ adminIsLoading = TRUE
    /\ currentLocationId = 0
    /\ confirmLog = <<>>
    /\ attempts = 0
    /\ logins = 0
    /\ navigations = 0
    /\ strictPending = FALSE
    /\ aiPending = 0
    /\ aiRequests = 0
    /\ stats = NullStats
    /\ complianceUsers = NullReport
    /\ isAiLoading = FALSE
    /\ aiResponse = ""
    /\ nextUserId = FirstImportedId
    /\ file = NullFile
    /\ uploadStatus = NullUpload
    /\ storageEvents = 0

ValidationNext ==
    \/ AssociateDateClick
    \/ HandleSubmit

ValidationSpec == ValidationInit /\ [][ValidationNext]_vars

-----------------------------------------------------------------------------
(* The week grouping of handleSubmit over the years.  The page is loaded in  *)
(* any month of the years below, the ledger is empty and the status of the   *)
(* month shown is loaded; the associate clicks on days and submits.          *)

\* the first and the last year the page is loaded in
FirstWeekYear == 2020
LastWeekYear == 2026

\* the days the page is loaded on: the 15th of every month of those years
WeekTodays ==
    {year * 10000 + month * 100 + 15 : year \in FirstWeekYear..LastWeekYear,
                                       month \in 1..12}

WeekInit ==
    /\ importedUsers = <<>>
    /\ today \in {ParseYMD(t) : t \in WeekTodays}
    /\ mockBookings = <<>>
    /\ mockWaitlist = <<>>
    /\ nextBookingId = 1
    /\ nextWaitlistId = 1
    /\ now = 0
    /\ mounted = 1
    /\ dataVersion = 0
    /\ currentUser = ValidationUser
    /\ session = 1
    /\ activeView = "none"
    /\ timers = <<>>
    /\ selectedDates = <<>>
    /\ monthlyStatus = getMonthlyBookingStatus(<<>>, <<>>,
                            UserById(ValidationUser).locationId,
                            GetFullYear(currentDate), GetMonth(currentDate))
    /\ isLoading = FALSE
    /\ error = ""
    /\ successMessage = 0
    /\ adminStatus = EmptyMap
    /\ adminSelectedDate = 0
    /\ dailyDetails = NullDetails
    /\ isDetailsLoading = FALSE
    /\ adminIsLoading = TRUE
    /\ currentLocationId = 0
    /\ confirmLog = <<>>
    /\ attempts = 0
    /\ logins = 0
    /\ navigations = 0
    /\ strictPending = FALSE
    /\ aiPending = 0
    /\ aiRequests = 0
    /\ stats = NullStats
    /\ complianceUsers = NullReport
    /\ isAiLoading = FALSE
    /\ aiResponse = ""
    /\ nextUserId = FirstImportedId
    /\ file = NullFile
    /\ uploadStatus = NullUpload
    /\ storageEvents = 0

WeekNext ==
    \/ AssociateDateClick
    \/ HandleSubmit

WeekSpec == WeekInit /\ [][WeekNext]_vars

-----------------------------------------------------------------------------
(* The associate's portal in one of several tabs.  Another tab that changes  *)
(* its data writes the version to localStorage, and this window receives the *)
(* storage event; the timers of this tab fire as their delays allow.         *)

\* the day the page is loaded on
SyncToday == 20250215

\* another tab ran handleDataChange: its Date.now() is the clock of the event
HandleStorageChange ==
    /\ mounted > 0
    /\ storageEvents < MaxStorageEvents
    /\ \E newValue \in {now, now + 1} :
         SetU(handleStorageChange([U0 EXCEPT !.now = newValue], newValue))
    /\ storageEvents' = storageEvents + 1
    /\ UNCHANGED <<today, importedUsers, nextUserId, file, uploadStatus, strictPending,
                   aiPending, aiRequests, mockBookings, mockWaitlist, nextBookingId,
                   nextWaitlistId, mounted, confirmLog, attempts, logins, navigations>>

SyncInit == WeekInit /\ today = ParseYMD(SyncToday)

SyncNext ==
    \/ AssociateDateClick
    \/ HandleSubmit
    \/ HandleStorageChange
    \/ FireTimer

SyncSpec == SyncInit /\ [][SyncNext]_vars

-----------------------------------------------------------------------------
(* What the administrator's views compute from the ledger.  The ledger is   *)
(* the one seeded when the page was loaded, with the days two associates    *)
(* booked since; the reports are asked for on that day or on a later one.   *)

\* the day the page was loaded on
ReportSeedDay == 20250215

\* the seeding runs of the page load
ReportSeeds == {SeedInput([rot |-> 0, rev |-> FALSE], r, 1) : r \in Draws}

\* the days the associates 2 and 101 have booked since the page load
ReportSubmissions ==
    { [first |-> <<>>, second |-> <<>>],
      [first |-> <<20250304>>, second |-> <<>>],
      [first |-> <<20250304>>, second |-> <<20250305, 20250306, 20250401>>] }

\* the days the administrator looks at the reports on
ReportTodays == {20250215, 20250310, 20250410, 20251215, 20260215}

\* the ledger of a page load with the submissions since
ReportLedger(rnd, sub) ==
    submitBookings(
        submitBookings(
            seedInitialData([bookings |-> <<>>, waitlist |-> <<>>, nextBookingId |-> 1,
                             nextWaitlistId |-> 1, now |-> 0, calls |-> 0,
                             period |-> rnd.period],
                            ParseYMD(ReportSeedDay), rnd),
            2, sub.first, 1),
        101, sub.second, 1)

ReportInit ==
    /\ importedUsers = <<>>
    /\ today \in {ParseYMD(t) : t \in ReportTodays}
    /\ \E rnd \in ReportSeeds, sub \in ReportSubmissions :
          \E L \in {ReportLedger(rnd, sub)} :
             /\ mockBookings = L.bookings
             /\ mockWaitlist = L.waitlist
             /\ nextBookingId = L.nextBookingId
             /\ nextWaitlistId = L.nextWaitlistId
             /\ now = L.now
             /\ dataVersion = L.now
    /\ mounted = 1
    /\ currentUser = 1
    /\ session = 1
    /\ activeView = "none"
    /\ timers = <<>>
    /\ selectedDates = <<>>
    /\ monthlyStatus = EmptyMap
    /\ isLoading = TRUE
    /\ error = ""
    /\ successMessage = 0
    /\ adminStatus = EmptyMap
    /\ adminSelectedDate = 0
    /\ dailyDetails = NullDetails
    /\ isDetailsLoading = FALSE
    /\ adminIsLoading = TRUE
    /\ currentLocationId = 0
    /\ confirmLog = <<>>
    /\ attempts = 0
    /\ logins = 1
    /\ navigations = 0
    /\ strictPending = FALSE
    /\ aiPending = 0
    /\ aiRequests = 0
    /\ stats = NullStats
    /\ complianceUsers = NullReport
    /\ isAiLoading = FALSE
    /\ aiResponse = ""
    /\ nextUserId = FirstImportedId
    /\ file = NullFile
    /\ uploadStatus = NullUpload
    /\ storageEvents = 0

\* AdminDashboard: getDashboardStats resolves and setStats stores the result
GetDashboardStats ==
    /\ stats' = getDashboardStats(mockBookings, mockWaitlist, today)
    /\ UNCHANGED <<today, storageEvents, importedUsers, nextUserId, file, uploadStatus, mockBookings, mockWaitlist, nextBookingId, nextWaitlistId, now,
                   mounted, dataVersion, currentUser, session, activeView, timers,
                   selectedDates, monthlyStatus, isLoading, error, successMessage,
                   adminStatus, adminSelectedDate, dailyDetails, isDetailsLoading,
                   adminIsLoading, currentLocationId, confirmLog, attempts, logins,
                   navigations, strictPending, aiPending, aiRequests, complianceUsers, isAiLoading, aiResponse>>

\* AdminToolsView: the Generate Report button
HandleGenerateComplianceReport ==
    /\ complianceUsers' = [loaded |-> TRUE,
                           nonCompliantUsers |-> nonCompliantUsers(mockBookings, today)]
    /\ UNCHANGED <<today, storageEvents, importedUsers, nextUserId, file, uploadStatus, mockBookings, mockWaitlist, nextBookingId, nextWaitlistId, now,
                   mounted, dataVersion, currentUser, session, activeView, timers,
                   selectedDates, monthlyStatus, isLoading, error, successMessage,
                   adminStatus, adminSelectedDate, dailyDetails, isDetailsLoading,
                   adminIsLoading, currentLocationId, confirmLog, attempts, logins,
                   navigations, strictPending, aiPending, aiRequests, stats, isAiLoading, aiResponse>>

\* AdminCalendarView: getMonthlyBookingStatus of the location selected and the
\* month shown resolves
GetMonthlyBookingStatus ==
    /\ \E locationId \in LocationIds :
          /\ currentLocationId' = locationId
          /\ adminStatus' = getMonthlyBookingStatus(mockBookings, mockWaitlist, locationId,
                                 GetFullYear(currentDate), GetMonth(currentDate))
    /\ adminIsLoading' = FALSE
    /\ UNCHANGED <<today, storageEvents, importedUsers, nextUserId, file, uploadStatus, mockBookings, mockWaitlist, nextBookingId, nextWaitlistId, now,
                   mounted, dataVersion, currentUser, session, activeView, timers,
                   selectedDates, monthlyStatus, isLoading, error, successMessage,
                   adminSelectedDate, dailyDetails, isDetailsLoading,
                   confirmLog, attempts, logins,
                   navigations, strictPending, aiPending, aiRequests, stats,
                   complianceUsers, isAiLoading, aiResponse>>

ReportNext ==
    \/ GetDashboardStats
    \/ HandleGenerateComplianceReport
    \/ GetMonthlyBookingStatus

ReportSpec == ReportInit /\ [][ReportNext]_vars

-----------------------------------------------------------------------------
(* The user import of AdminToolsView: the administrator chooses CSV files   *)
(* and uploads them.                                                         *)

\* The import reads and writes the users only; the ledger is left empty.

\* imports go on while fewer than this many users were imported
MaxImported == 2

\* the rows of the files: a new address at Pune, the same address with
\* capital letters, the address of Rajesh Kumar as mockUsers has it and with
\* capital letters, and a new address at a location that does not exist
CsvRows ==
    {[email |-> Email("amit.verma", -1, FALSE), locationId |-> 2, teamId |-> 101],
     [email |-> Email("amit.verma", -1, TRUE), locationId |-> 2, teamId |-> 101],
     [email |-> Email("rajesh.kumar", -1, FALSE), locationId |-> 1, teamId |-> 0],
     [email |-> Email("rajesh.kumar", -1, TRUE), locationId |-> 1, teamId |-> 0],
     [email |-> Email("neha.jain", -1, FALSE), locationId |-> 0, teamId |-> 0]}

\* the headers of the sample file
SampleHeaders == {"employeeId", "name", "email", "locationName", "teamId"}

\* the files: one or two rows under the headers of the sample file, a file
\* with a new address between two occurrences of an existing one, a file
\* whose first address occurs again, a file of six rows that are all skipped,
\* and a file without the email column
CsvFiles ==
    {[headers |-> SampleHeaders, rows |-> <<r>>] : r \in CsvRows}
    \cup {[headers |-> SampleHeaders, rows |-> <<r1, r2>>] : r1, r2 \in CsvRows}
    \cup {[headers |-> SampleHeaders,
           rows |-> [i \in 1..6 |->
                       [email |-> Email("rajesh.kumar", -1, FALSE), locationId |-> 1,
                        teamId |-> 0]]],
          [headers |-> SampleHeaders \ {"email"}, rows |-> <<>>]}

ImportInit ==
    /\ importedUsers = <<>>
    /\ today \in {ParseYMD(t) : t \in Todays}
    /\ mockBookings = <<>>
    /\ mockWaitlist = <<>>
    /\ nextBookingId = 1
    /\ nextWaitlistId = 1
    /\ now = 0
    /\ mounted = 1
    /\ dataVersion = 0
    /\ currentUser = 1
    /\ session = 1
    /\ activeView = "tools"
    /\ timers = <<>>
    /\ selectedDates = <<>>
    /\ monthlyStatus = EmptyMap
    /\ isLoading = TRUE
    /\ error = ""
    /\ successMessage = 0
    /\ adminStatus = EmptyMap
    /\ adminSelectedDate = 0
    /\ dailyDetails = NullDetails
    /\ isDetailsLoading = FALSE
    /\ adminIsLoading = TRUE
    /\ currentLocationId = 0
    /\ confirmLog = <<>>
    /\ attempts = 0
    /\ logins = 1
    /\ navigations = 0
    /\ strictPending = FALSE
    /\ aiPending = 0
    /\ aiRequests = 0
    /\ stats = NullStats
    /\ complianceUsers = NullReport
    /\ isAiLoading = FALSE
    /\ aiResponse = ""
    /\ nextUserId = FirstImportedId
    /\ file = NullFile
    /\ uploadStatus = NullUpload
    /\ storageEvents = 0

\* AdminToolsView.handleFileChange: a file is chosen
HandleFileChange ==
    /\ activeView = "tools"
    /\ \E csv \in CsvFiles :
          file' = [chosen |-> TRUE, headers |-> csv.headers, rows |-> csv.rows]
    /\ uploadStatus' = NullUpload
    /\ UNCHANGED <<today, storageEvents, mockBookings, mockWaitlist, nextBookingId, nextWaitlistId, now,
                   mounted, dataVersion, currentUser, session, activeView, timers,
                   selectedDates, monthlyStatus, isLoading, error, successMessage,
                   adminStatus, adminSelectedDate, dailyDetails, isDetailsLoading,
                   adminIsLoading, currentLocationId, confirmLog, attempts, logins,
                   navigations, strictPending, aiPending, aiRequests, stats,
                   complianceUsers, isAiLoading, aiResponse, importedUsers, nextUserId>>

\* AdminToolsView.handleUpload: the file is read and imported, the result is
\* shown and, when users were added, onDataChange() is called
HandleUpload ==
    /\ activeView = "tools"
    /\ file.chosen
    /\ nextUserId < FirstImportedId + MaxImported
       \/ (nextUserId >= FirstTeammateId /\ nextUserId < FirstTeammateId + MaxImported)
    /\ \E r \in {importUsersFromCSV(mockUsers \o importedUsers, nextUserId, file)} :
          /\ importedUsers' = importedUsers \o r.pushed
          /\ nextUserId' = r.nextUserId
          /\ uploadStatus' = r.result
          /\ IF r.result.success
             THEN \E newVersion \in {now, now + 1} :
                     /\ now' = newVersion
                     /\ dataVersion' = newVersion
             ELSE UNCHANGED <<now, dataVersion>>
    /\ UNCHANGED <<today, storageEvents, mockBookings, mockWaitlist, nextBookingId, nextWaitlistId,
                   mounted, currentUser, session, activeView, timers,
                   selectedDates, monthlyStatus, isLoading, error, successMessage,
                   adminStatus, adminSelectedDate, dailyDetails, isDetailsLoading,
                   adminIsLoading, currentLocationId, confirmLog, attempts, logins,
                   navigations, strictPending, aiPending, aiRequests, stats,
                   complianceUsers, isAiLoading, aiResponse, file>>

ImportNext ==
    \/ HandleFileChange
    \/ HandleUpload

ImportSpec == ImportInit /\ [][ImportNext]_vars

\* The dashboard after imports.  generateMockUsers leaves nextUserId at the id
\* after the last generated user, below the ids it gave the teammates, so the
\* import that follows PriorImports imported users receives the id of the
\* first teammate.  The page has been loaded with one seeding run, an earlier
\* upload has imported PriorImports users at the first location, and the
\* administrator is in the tools view and has chosen a file of one row.
PriorImports == FirstTeammateId - FirstImportedId

\* the users the earlier upload pushed: id: nextUserId++ for each row
PriorImported ==
    [k \in 1..PriorImports |->
        [id |-> FirstImportedId + k - 1, role |-> "associate", locationId |-> 1,
         teamId |-> 0, email |-> Email("import", k, FALSE)]]

DashboardInit ==
    /\ importedUsers = PriorImported
    /\ nextUserId = FirstImportedId + PriorImports
    /\ today \in {ParseYMD(t) : t \in Todays}
    /\ \E L \in {seedInitialData([bookings |-> <<>>, waitlist |-> <<>>, nextBookingId |-> 1,
                                   nextWaitlistId |-> 1, now |-> 0, calls |-> 0,
                                   period |-> LiveSeed.period],
                                  today, LiveSeed)} :
          /\ mockBookings = L.bookings
          /\ mockWaitlist = L.waitlist
          /\ nextBookingId = L.nextBookingId
          /\ nextWaitlistId = L.nextWaitlistId
          /\ now = L.now
          /\ dataVersion = L.now
    /\ mounted = 1
    /\ currentUser = 1
    /\ session = 1
    /\ activeView = "tools"
    /\ timers = <<>>
    /\ selectedDates = <<>>
    /\ monthlyStatus = EmptyMap
    /\ isLoading = TRUE
    /\ error = ""
    /\ successMessage = 0
    /\ adminStatus = EmptyMap
    /\ adminSelectedDate = 0
    /\ dailyDetails = NullDetails
    /\ isDetailsLoading = FALSE
    /\ adminIsLoading = TRUE
    /\ currentLocationId = 0
    /\ confirmLog = <<>>
    /\ attempts = 0
    /\ logins = 1
    /\ navigations = 0
    /\ strictPending = FALSE
    /\ aiPending = 0
    /\ aiRequests = 0
    /\ stats = NullStats
    /\ complianceUsers = NullReport
    /\ isAiLoading = FALSE
    /\ aiResponse = ""
    /\ file \in {[chosen |-> TRUE, headers |-> SampleHeaders, rows |-> <<r>>] :
                   r \in CsvRows}
    /\ uploadStatus = NullUpload
    /\ storageEvents = 0

DashboardNext ==
    \/ HandleUpload
    \/ SetActiveView
    \/ FireTimer

DashboardSpec == DashboardInit /\ [][DashboardNext]_vars

-----------------------------------------------------------------------------
(* Properties *)

\* mockBookings.filter(b => ... confirmed).length of a location on a date
ConfirmedCount(bookings, locationId, dateStr) ==
    Cardinality({i \in 1..Len(bookings) :
                    /\ bookings[i].date = dateStr
                    /\ bookings[i].userId \in UsersInLocation(locationId)
                    /\ bookings[i].status = "confirmed"})

\* the confirmed bookings of a user on a date
ConfirmedOf(bookings, userId, dateStr) ==
    Cardinality({i \in 1..Len(bookings) :
                    /\ bookings[i].date = dateStr
                    /\ bookings[i].userId = userId
                    /\ bookings[i].status = "confirmed"})

\* the waitlist entries of a user on a date
WaitlistedOf(waitlist, userId, dateStr) ==
    Cardinality({i \in 1..Len(waitlist) :
                    waitlist[i].date = dateStr /\ waitlist[i].userId = userId})

BookingDates(bookings) == {bookings[i].date : i \in 1..Len(bookings)}
WaitlistDates(waitlist) == {waitlist[i].date : i \in 1..Len(waitlist)}

\* every location is within its capacity on every date
WithinCapacity(bookings) ==
    \A l \in LocationIds : \A d \in BookingDates(bookings) :
        ConfirmedCount(bookings, l, d) <= LocationById(l).capacity

\* C1: a step of submitBookings or confirmWaitlist taken in a state where
\* every location is within capacity on every date leaves every location
\* within capacity on every date.
C1_CapacityNeverExceeded ==
    [][(mounted' = mounted /\ WithinCapacity(mockBookings))
          => WithinCapacity(mockBookings')]_vars

\* C2: every reachable state holds at most one confirmed booking per
\* (userId, date).
C2_OneConfirmedPerUserDate ==
    \A u \in UserIds : \A d \in BookingDates(mockBookings) :
        ConfirmedOf(mockBookings, u, d) <= 1

\* C3: in every reachable state no user has both a confirmed booking and a
\* waitlist entry for the same date.
C3_NotConfirmedAndWaitlisted ==
    \A u \in UserIds : \A d \in WaitlistDates(mockWaitlist) :
        WaitlistedOf(mockWaitlist, u, d) > 0 => ConfirmedOf(mockBookings, u, d) = 0

\* C4: joining the waitlist is idempotent: addWaitlist for a pair that has an
\* entry leaves the ledger as it is, and every reachable state holds at most
\* one waitlist entry per (userId, date).
C4_WaitlistJoinIdempotent ==
    /\ \A u \in UserIds : \A d \in WaitlistDates(mockWaitlist) :
           WaitlistedOf(mockWaitlist, u, d) <= 1
    /\ \A i \in 1..Len(mockWaitlist) :
           addWaitlist(Ledger, mockWaitlist[i].userId, mockWaitlist[i].date) = Ledger

\* C4 happens: the demo-day loop asked for at least five entries at the first
\* location, which has fewer associates, so it asked twice for a pair; each
\* of its associates has one entry.
C4_Witness ==
    /\ mounted = 1
    /\ Len(associatesInLocation(mockLocations[1])) < 5
    /\ \A u \in UsersInLocation(1) :
           UserById(u).role = "associate"
              => WaitlistedOf(mockWaitlist, u, formatDateToYMD(DemoDay(today))) = 1

\* the call a step settled, when the step settled a confirmWaitlist call
Settled(log) == log[Len(log)]

\* C5: promotion is atomic for readers: in every step, the waitlist entry of a
\* pair leaves the waitlist exactly when a confirmWaitlist call for the pair
\* resolves in that step, and the same step adds exactly one confirmed booking
\* of the pair; so no state a read operation runs in has the one without the
\* other.
C5_PromotionAtomic ==
    [][\A u \in UserIds : \A d \in WaitlistDates(mockWaitlist) :
          LET removed  == WaitlistedOf(mockWaitlist', u, d) < WaitlistedOf(mockWaitlist, u, d)
              promoted == /\ Len(confirmLog') = Len(confirmLog) + 1
                          /\ Settled(confirmLog').ok
                          /\ Settled(confirmLog').userId = u
                          /\ Settled(confirmLog').date = d
          IN  /\ removed <=> promoted
              /\ promoted =>
                    /\ WaitlistedOf(mockWaitlist', u, d) = WaitlistedOf(mockWaitlist, u, d) - 1
                    /\ ConfirmedOf(mockBookings', u, d) = ConfirmedOf(mockBookings, u, d) + 1
                    /\ Len(mockBookings') = Len(mockBookings) + 1]_vars

\* C5 happens: a promotion resolved and the day details read after it list the
\* user as booked and no longer as waitlisted.
C5_Witness ==
    /\ Len(confirmLog) > 0
    /\ Settled(confirmLog).ok
    /\ dailyDetails.loaded
    /\ adminSelectedDate = Settled(confirmLog).date
    /\ Settled(confirmLog).userId \in Range(dailyDetails.bookedUsers)
    /\ Settled(confirmLog).userId \notin Range(dailyDetails.waitlistedUsers)
    /\ WaitlistedOf(mockWaitlist, Settled(confirmLog).userId, Settled(confirmLog).date) = 0

\* C6: a confirmWaitlist call for a pair that has no waitlist entry is rejected
\* and leaves the bookings, the waitlist and the id counters as they were; a
\* call for a pair that has an entry resolves.
C6_ConfirmWithoutEntryRejected ==
    [][Len(confirmLog') = Len(confirmLog) + 1 =>
          LET r == Settled(confirmLog')
          IN  /\ r.ok <=> WaitlistedOf(mockWaitlist, r.userId, r.date) > 0
              /\ ~r.ok => /\ mockBookings' = mockBookings
                          /\ mockWaitlist' = mockWaitlist
                          /\ nextBookingId' = nextBookingId
                          /\ nextWaitlistId' = nextWaitlistId]_vars

\* C6 happens: a call for a pair resolved and a later call for the same pair
\* was rejected.
C6_Witness ==
    \E i, j \in 1..Len(confirmLog) :
        /\ i < j
        /\ confirmLog[i].ok /\ ~confirmLog[j].ok
        /\ confirmLog[i].userId = confirmLog[j].userId
        /\ confirmLog[i].date = confirmLog[j].date

\* C7: getBookingsForDate returns the waitlisted users in FIFO order: of two
\* waitlisted users of the location on the date, the one whose entry has the
\* smaller timestamp comes earlier in waitlistedUsers.
C7_DayDetailsFifo ==
    \A l \in LocationIds : \A d \in WaitlistDates(mockWaitlist) :
        LET waitlistedUsers ==
                getBookingsForDate(mockBookings, mockWaitlist, d, l).waitlistedUsers
        IN  \A i, j \in 1..Len(waitlistedUsers) :
                EntryTimestamp(mockWaitlist, waitlistedUsers[i], d)
                    < EntryTimestamp(mockWaitlist, waitlistedUsers[j], d)
                => i < j

\* a confirmWaitlist call resolved in this step
Promoted == Len(confirmLog') = Len(confirmLog) + 1 /\ Settled(confirmLog').ok

\* the waitlist entries of the date at the location of the user that are
\* older than the timestamp
OlderEntries(waitlist, userId, date, timestamp) ==
    {k \in 1..Len(waitlist) :
        /\ waitlist[k].date = date
        /\ UserById(waitlist[k].userId).locationId = UserById(userId).locationId
        /\ waitlist[k].timestamp < timestamp}

C9_TimestampsStrictlyIncreasing ==
    \A i, j \in 1..Len(mockWaitlist) :
        i < j => mockWaitlist[i].timestamp < mockWaitlist[j].timestamp

\* a week of the selection fails the weekly minimum
FailsWeeklyMinimum == weeklyValidation(selectedDates, monthlyStatus, currentDate) # -1

\* C10: a submission that fails the weekly minimum is rejected as a whole
\* before any mutation: the handler shows the error, calls no service
\* operation and leaves the ledger as it was.
C10_FailedSubmissionRejectedWhole ==
    [][(attempts' = attempts + 1 /\ FailsWeeklyMinimum)
          => /\ error' = "weekly minimum"
             /\ timers' = timers
             /\ mockBookings' = mockBookings
             /\ mockWaitlist' = mockWaitlist
             /\ nextBookingId' = nextBookingId
             /\ selectedDates' = selectedDates]_vars

\* C10 happens: a submission was rejected whose selection has a week that
\* meets the minimum next to the week that fails it.
C10_Witness ==
    /\ attempts > 0
    /\ error = "weekly minimum"
    /\ FailsWeeklyMinimum
    /\ \E i \in 1..Len(selectedDates) :
           ~weekFails(datesByWeek(selectedDates, getWeek(ParseYMD(selectedDates[i]))),
                      monthlyStatus, currentDate)
    /\ PendingKind("submitBookings") = {}

\* a submitBookings call settled in this step
SubmitSettled ==
    Cardinality(PendingKind("submitBookings")') < Cardinality(PendingKind("submitBookings"))

\* the bookings a submission of the dates by the user adds, in order
NewBookings(userId, dates, firstId) ==
    [k \in 1..Len(dates) |->
        [id |-> firstId + k - 1, userId |-> userId, date |-> dates[k], status |-> "confirmed"]]

\* C14: a submission that passed validation adds exactly one confirmed booking
\* of the submitting user per requested date, whether or not the day is full,
\* reports success with the number of days, and leaves every existing booking
\* and every waitlist entry as it was.
C14_SubmissionBooksEveryDate ==
    [][SubmitSettled =>
          \E i \in PendingKind("submitBookings") :
              /\ mockBookings' = mockBookings
                     \o NewBookings(timers[i].userId, timers[i].dates, nextBookingId)
              /\ mockWaitlist' = mockWaitlist
              /\ nextWaitlistId' = nextWaitlistId
              /\ timers[i].session = session
                    => /\ successMessage' = Len(timers[i].dates)
                       /\ error' = error]_vars

\* C14 happens: a submission of three days or more was reported booked, the
\* ledger ends with its bookings, and one of its days was full beforehand so
\* that the location is now over capacity on it.
C14_Witness ==
    /\ IsAssociate
    /\ successMessage >= 3
    /\ Len(mockBookings) >= successMessage
    /\ \A k \in (Len(mockBookings) - successMessage + 1)..Len(mockBookings) :
           /\ mockBookings[k].userId = currentUser
           /\ mockBookings[k].status = "confirmed"
    /\ ConfirmedCount(mockBookings, UserById(currentUser).locationId,
                      mockBookings[Len(mockBookings)].date)
          > LocationById(UserById(currentUser).locationId).capacity
    /\ mockWaitlist # <<>>

\* a Saturday, a Sunday or a public holiday
NonWorkingDay(dateStr) ==
    \/ GetDay(ParseYMD(dateStr)) \in {0, 6}
    \/ dateStr \in getIndianPublicHolidaysForYear(dateStr \div 10000)

\* C16: holidays and weekends are never booked through an associate's
\* submission: a submitBookings call that settles adds no booking dated on a
\* Saturday, a Sunday or a public holiday.
C16_NoSubmissionOnNonWorkingDay ==
    [][SubmitSettled =>
          \A k \in (Len(mockBookings) + 1)..Len(mockBookings') :
              ~NonWorkingDay(mockBookings'[k].date)]_vars

\* the booking is the same, or the same but cancelled instead of confirmed
SameOrCancelled(before, after) ==
    /\ after.id = before.id
    /\ after.userId = before.userId
    /\ after.date = before.date
    /\ after.status = before.status
          \/ (before.status = "confirmed" /\ after.status = "cancelled")

\* C17: no step removes a booking or changes its user or date: every booking
\* stays at its place in the ledger, the same or cancelled; and a run of the
\* mount effect that alters the ledger starts from an empty ledger.
C17_BookingsAppendOnly ==
    [][/\ Len(mockBookings') >= Len(mockBookings)
       /\ \A k \in 1..Len(mockBookings) : SameOrCancelled(mockBookings[k], mockBookings'[k])
       /\ (mounted' # mounted /\ <<mockBookings, mockWaitlist>>' # <<mockBookings, mockWaitlist>>)
             => (mockBookings = <<>> /\ mockWaitlist = <<>>)]_vars

\* C17 happens: the mount effect ran a second time, on the seeded ledger, and
\* after it a submission added bookings behind the seeded ones.
C17_Witness ==
    /\ mounted = 2
    /\ successMessage > 0
    /\ Len(mockBookings) > successMessage
    /\ mockBookings[1].id = 1
    /\ nextBookingId = Len(mockBookings) + 1

\* the seven days, Sunday to Saturday, around a date, and the seven days,
\* Monday to Sunday, of its ISO week
SundayWeek(date) == (date - GetDay(date))..(date - GetDay(date) + 6)
IsoWeek(date) == (date - ((GetDay(date) + 6) % 7))..(date - ((GetDay(date) + 6) % 7) + 6)

\* every one of the days falls within the month shown
InMonthShown(days) ==
    \A x \in days : /\ GetMonth(x) = GetMonth(currentDate)
                    /\ GetFullYear(x) = GetFullYear(currentDate)

\* one of the days is exhausted in the status the portal holds: booked up and
\* its waitlist full
ExhaustedIn(days) ==
    \E x \in days :
        /\ formatDateToYMD(x) \in DOMAIN monthlyStatus
        /\ monthlyStatus[formatDateToYMD(x)].isFull
        /\ monthlyStatus[formatDateToYMD(x)].isWaitlistFull

\* how many of the selected dates are among the days
SelectedIn(days) ==
    Cardinality({i \in 1..Len(selectedDates) : ParseYMD(selectedDates[i]) \in days})

\* the Sunday-to-Saturday weeks, and the ISO weeks, of the selected dates
SelectedSundayWeeks == {SundayWeek(ParseYMD(selectedDates[i])) : i \in 1..Len(selectedDates)}
SelectedIsoWeeks == {IsoWeek(ParseYMD(selectedDates[i])) : i \in 1..Len(selectedDates)}

\* handleSubmit runs in this step; it fails with the weekly minimum error and
\* calls nothing, or it passes the weekly check and calls submitBookings
SubmitAttempt == attempts' = attempts + 1
WeeklyMinimumViolation == error' = "weekly minimum" /\ timers' = timers
PassesWeeklyCheck ==
    /\ error' = ""
    /\ Len(timers') = Len(timers) + 1
    /\ timers'[Len(timers')].kind = "submitBookings"
    /\ timers'[Len(timers')].dates = selectedDates

\* C11: when no day of the weeks selected from is exhausted, a submission
\* with one or two days of a week that lies within the month shown fails with
\* the weekly minimum error, and a submission with three or more days of
\* every such week passes the weekly check.
C11_ThreeDaysPerContainedWeek ==
    [][(SubmitAttempt /\ \A w \in SelectedSundayWeeks : ~ExhaustedIn(w)) =>
          /\ (\E w \in SelectedSundayWeeks : InMonthShown(w) /\ SelectedIn(w) \in {1, 2})
                => WeeklyMinimumViolation
          /\ (\A w \in SelectedSundayWeeks : InMonthShown(w) => SelectedIn(w) >= 3)
                => PassesWeeklyCheck]_vars

\* C11 happens: a selection of fewer than three days of a week within the
\* month was rejected, a day was added, and the three days passed.
C11_Witness ==
    /\ attempts = 2
    /\ Cardinality(PendingKind("submitBookings")) = 1
    /\ Len(selectedDates) = 3
    /\ \A w \in SelectedSundayWeeks :
           InMonthShown(w) /\ SelectedIn(w) = 3 /\ ~ExhaustedIn(w)

\* C12: the weekly minimum is waived exactly for the weeks with an exhausted
\* day: a submission passes if and only if every week within the month shown
\* that it has fewer than three days of has a day that is both full and
\* waitlist-full; a day that is only full or only waitlist-full waives nothing.
C12_WaivedExactlyWhenExhausted ==
    [][SubmitAttempt =>
          LET short == {w \in SelectedSundayWeeks : InMonthShown(w) /\ SelectedIn(w) < 3}
              half(w) == \E x \in w :
                            /\ formatDateToYMD(x) \in DOMAIN monthlyStatus
                            /\ monthlyStatus[formatDateToYMD(x)].isFull
                                  # monthlyStatus[formatDateToYMD(x)].isWaitlistFull
          IN  /\ PassesWeeklyCheck <=> \A w \in short : ExhaustedIn(w)
              /\ WeeklyMinimumViolation <=> \E w \in short : ~ExhaustedIn(w)
              /\ (\E w \in short : half(w) /\ ~ExhaustedIn(w)) => WeeklyMinimumViolation]_vars

\* C12 happens: a selection of one day passed the weekly check because a day
\* of its week, which lies within the month shown, is exhausted.
C12_Witness ==
    /\ Cardinality(PendingKind("submitBookings")) = 1
    /\ Len(selectedDates) = 1
    /\ \A w \in SelectedSundayWeeks : InMonthShown(w) /\ ExhaustedIn(w)

\* C13 as stated: the weekly minimum applies to exactly the ISO weeks, Monday
\* to Sunday, that lie within the month shown: with no exhausted day, a
\* submission fails if and only if it has fewer than three days of such a week.
C13_AppliesToContainedIsoWeeks ==
    [][(SubmitAttempt /\ \A w \in SelectedIsoWeeks \cup SelectedSundayWeeks : ~ExhaustedIn(w)) =>
          (WeeklyMinimumViolation
              <=> \E w \in SelectedIsoWeeks : InMonthShown(w) /\ SelectedIn(w) < 3)]_vars

\* C13 amended: the weekly minimum applies to exactly the Sunday-to-Saturday
\* weeks that lie within the month shown: with no exhausted day, a submission
\* of working days fails if and only if it has fewer than three days of such
\* a week; a week with a day in an adjacent month is exempt.
C13_AppliesToContainedSundayWeeks ==
    [][(SubmitAttempt /\ \A w \in SelectedIsoWeeks \cup SelectedSundayWeeks : ~ExhaustedIn(w)) =>
          (WeeklyMinimumViolation
              <=> \E w \in SelectedSundayWeeks : InMonthShown(w) /\ SelectedIn(w) < 3)]_vars

\* C13 happens: one day of the ISO week that begins on the 1st of the month
\* shown passed the weekly check: its Sunday-to-Saturday week begins in the
\* month before.
C13_Witness ==
    /\ Cardinality(PendingKind("submitBookings")) = 1
    /\ Len(selectedDates) = 1
    /\ \A w \in SelectedIsoWeeks : InMonthShown(w) /\ ~ExhaustedIn(w)
    /\ \A w \in SelectedSundayWeeks : ~InMonthShown(w)

\* the bookings of the ledger, as indices, with the status given, made by a
\* user of the set, in the month (0-based) of the year
BookingsIn(status, users, year, month) ==
    {i \in 1..Len(mockBookings) :
        /\ mockBookings[i].status = status
        /\ mockBookings[i].userId \in users
        /\ mockBookings[i].date \div 100 = year * 100 + month + 1}

\* the bookings, and the waitlist entries, of the ledger on a date, as indices
BookingsOn(status, users, dateStr) ==
    {i \in 1..Len(mockBookings) :
        /\ mockBookings[i].status = status
        /\ mockBookings[i].userId \in users
        /\ mockBookings[i].date = dateStr}
WaitlistOn(users, dateStr) ==
    {i \in 1..Len(mockWaitlist) :
        mockWaitlist[i].userId \in users /\ mockWaitlist[i].date = dateStr}

\* the users of a location, and the associates
UsersOf(locationId) == {u \in UserIds : UserById(u).locationId = locationId}
Associates == {u \in UserIds : UserById(u).role = "associate"}

\* the date strings of the calendar days of a month (0-based) of a year
DatesOfMonth(year, month) ==
    {year * 10000 + (month + 1) * 100 + day :
        day \in 1..(NewDate(year, month + 1, 1) - NewDate(year, month, 1))}

TargetYear == IF GetMonth(today) = 0 THEN GetFullYear(today) - 1 ELSE GetFullYear(today)
TargetMonth == IF GetMonth(today) = 0 THEN 11 ELSE GetMonth(today) - 1

\* the confirmed bookings of a user in the month before today
ConfirmedInTargetMonth(userId) ==
    Cardinality(BookingsIn("confirmed", {userId}, TargetYear, TargetMonth))

\* C18: the compliance result lists exactly the associates with fewer than 10
\* confirmed bookings dated in the month before today, once each, with that
\* number as bookingCount; cancelled bookings and bookings of other months or
\* years are not counted, and no administrator is listed.
C18_NonCompliantExactlyBelowTen ==
    complianceUsers.loaded =>
        LET list == complianceUsers.nonCompliantUsers
        IN  /\ {list[i].userId : i \in 1..Len(list)}
                  = {u \in Associates : ConfirmedInTargetMonth(u) < 10}
            /\ \A i, j \in 1..Len(list) : list[i].userId = list[j].userId => i = j
            /\ \A i \in 1..Len(list) :
                  list[i].bookingCount = ConfirmedInTargetMonth(list[i].userId)

\* C18 happens: an associate with 9 confirmed bookings in the month is listed
\* with bookingCount 9 and has a cancelled booking in the month, and an
\* associate with 10 in the month and one in the month after is not listed.
C18_Witness ==
    /\ complianceUsers.loaded
    /\ \E i \in 1..Len(complianceUsers.nonCompliantUsers) :
          /\ complianceUsers.nonCompliantUsers[i].bookingCount = 9
          /\ BookingsIn("cancelled", {complianceUsers.nonCompliantUsers[i].userId},
                        TargetYear, TargetMonth) # {}
    /\ \E u \in Associates :
          /\ ConfirmedInTargetMonth(u) = 10
          /\ \E i \in 1..Len(mockBookings) :
                /\ mockBookings[i].userId = u
                /\ mockBookings[i].status = "confirmed"
                /\ mockBookings[i].date \div 100 # TargetYear * 100 + TargetMonth + 1
          /\ \A i \in 1..Len(complianceUsers.nonCompliantUsers) :
                complianceUsers.nonCompliantUsers[i].userId # u

\* the month after today: its year and its 0-based month
RepresentativeYear ==
    IF GetMonth(today) = 11 THEN GetFullYear(today) + 1 ELSE GetFullYear(today)
RepresentativeMonth == IF GetMonth(today) = 11 THEN 0 ELSE GetMonth(today) + 1

\* the days among the 1st..7th of the month after today that are neither a
\* Saturday, a Sunday nor a public holiday
WorkingDaysOfFirstSeven ==
    {day \in 1..7 :
        LET d == NewDate(RepresentativeYear, RepresentativeMonth, day)
        IN  /\ GetDay(d) \notin {0, 6}
            /\ formatDateToYMD(d) \notin indianPublicHolidays(RepresentativeYear)}

\* C19: the date the dashboard reports for is the earliest working day among
\* the 1st..7th of the month after today, and the 3rd of that month when
\* none of the seven is a working day.
C19_RepresentativeDay ==
    /\ stats.loaded =>
          stats.statsForDate =
              RepresentativeYear * 10000 + (RepresentativeMonth + 1) * 100
                + (IF WorkingDaysOfFirstSeven = {} THEN 3
                   ELSE CHOOSE day \in WorkingDaysOfFirstSeven :
                            \A other \in WorkingDaysOfFirstSeven : day <= other)
    \* the loop over the 1st..7th left without a day found
    /\ formatDateToYMD(DemoDayFrom(RepresentativeYear, RepresentativeMonth, 8))
          = RepresentativeYear * 10000 + (RepresentativeMonth + 1) * 100 + 3

\* C19 happens: the dashboard reports for the 3rd, a Monday, of a month that
\* begins with a Saturday.
C19_Witness ==
    /\ stats.loaded
    /\ stats.statsForDate % 100 = 3
    /\ GetDay(NewDate(RepresentativeYear, RepresentativeMonth, 1)) = 6

\* C20: for each location the cancelled-this-month count of the dashboard is
\* the number of cancelled bookings of the users of the location dated in the
\* month and year of the representative day.
C20_CancellationsOfThatMonthAndYear ==
    stats.loaded =>
        \A i \in 1..Len(stats.locationStats) :
            stats.locationStats[i].cancellationsMonth =
                Cardinality(BookingsIn("cancelled", UsersOf(stats.locationStats[i].locationId),
                                       RepresentativeYear, RepresentativeMonth))

\* the answer of getAIBookingSuggestion arrives in this step
AiAnswerArrives == aiPending # 0 /\ aiPending' = 0

AllUsers == mockUsers \o importedUsers

\* C22: no two users have emails that are equal ignoring the case of their
\* letters.
C22_EmailsUniqueIgnoringCase ==
    \A i, j \in 1..Len(AllUsers) :
        toLowerCase(AllUsers[i].email) = toLowerCase(AllUsers[j].email) => i = j

\* importUsersFromCSV has run in this step and resolved with a result
UploadStep == uploadStatus' # uploadStatus /\ uploadStatus'.loaded

\* the rows of the file chosen that are imported: the first occurrence, with
\* a location that exists, of an email no user has
ImportedRows ==
    {i \in 1..Len(file.rows) :
        /\ \A k \in 1..Len(AllUsers) : AllUsers[k].email # file.rows[i].email
        /\ file.rows[i].locationId \in LocationIds
        /\ \A j \in 1..(i - 1) :
              ~(file.rows[j].email = file.rows[i].email
                  /\ file.rows[j].locationId \in LocationIds)}

\* the rows of the file chosen whose email a user has or an imported row
\* before them has
CollidingRows ==
    {i \in 1..Len(file.rows) :
        \/ \E k \in 1..Len(AllUsers) : AllUsers[k].email = file.rows[i].email
        \/ \E j \in ImportedRows : j < i /\ file.rows[j].email = file.rows[i].email}

\* C23: an import of a file with the required columns adds one user for every
\* row that is the first in the file with its email, an email no user has,
\* and names a location that exists, and skips every other row with one
\* message of its own: a row whose email equals that of a user or of a row
\* imported before it is reported as an existing email, with that email.
C23_ImportRowByRow ==
    [][(UploadStep /\ requiredHeaders[1] \in file.headers /\ requiredHeaders[2] \in file.headers
          /\ requiredHeaders[3] \in file.headers /\ requiredHeaders[4] \in file.headers) =>
          LET skipped == (1..Len(file.rows)) \ ImportedRows
              shown == uploadStatus'.shown
          IN  /\ uploadStatus'.newUsersAdded = Cardinality(ImportedRows)
              /\ Len(importedUsers') = Len(importedUsers) + Cardinality(ImportedRows)
              /\ SubSeq(importedUsers', 1, Len(importedUsers)) = importedUsers
              /\ \A i \in ImportedRows :
                    Cardinality({k \in (Len(importedUsers) + 1)..Len(importedUsers') :
                                    importedUsers'[k].email = file.rows[i].email}) = 1
              /\ uploadStatus'.issues = Cardinality(skipped)
              /\ \A i \in skipped :
                    Cardinality({j \in skipped : j <= i}) <= Len(shown) =>
                        LET e == shown[Cardinality({j \in skipped : j <= i})]
                        IN  /\ e.row = i + 1
                            /\ e.email = file.rows[i].email
                            /\ (e.kind = "email exists") = (i \in CollidingRows)
              /\ Len(shown) = (IF Cardinality(skipped) > 5 THEN 5 ELSE Cardinality(skipped))]_vars

\* C23 happens: a file with a new address and the address of Rajesh Kumar was
\* imported: one user was added and the one issue names the address of
\* Rajesh Kumar as existing.
C23_Witness ==
    /\ file.chosen
    /\ Len(file.rows) = 2
    /\ uploadStatus.loaded
    /\ uploadStatus.success
    /\ uploadStatus.newUsersAdded = 1
    /\ uploadStatus.issues = 1
    /\ Len(uploadStatus.shown) = 1
    /\ uploadStatus.shown[1].kind = "email exists"
    /\ uploadStatus.shown[1].email = mockUsers[2].email
    /\ Len(importedUsers) = 1
    /\ importedUsers[1].email = Email("amit.verma", -1, FALSE)

\* C24: every call of getMonthlyBookingStatus, getBookingsForDate,
\* submitBookings, confirmWaitlist, getDashboardStats and login that is pending
\* completes: whenever calls of an operation are pending, a state follows in
\* which none of that operation is, whatever else was called meanwhile.
C24_EveryOperationCompletes ==
    \A kind \in TimerOperations : (PendingKind(kind) # {}) ~> (PendingKind(kind) = {})

\* C24 happens: two confirmWaitlist calls have completed, one of them with
\* a rejection, the details were fetched again, and nothing is pending.
C24_Witness ==
    /\ timers = <<>>
    /\ Len(confirmLog) = 2
    /\ \E k \in 1..2 : ~confirmLog[k].ok
    /\ dailyDetails.loaded
    /\ ~isDetailsLoading

\* ISO 8601: the Monday that begins the week of a date
IsoWeekMonday(date) == date - ((GetDay(date) + 6) % 7)

\* ISO 8601: the first Thursday of a year
FirstThursday(year) ==
    CHOOSE d \in NewDate(year, 0, 1)..NewDate(year, 0, 7) : GetDay(d) = 4

\* ISO 8601: a week belongs to the year of its Thursday and week 1 is the
\* week of the first Thursday of the year
IsoWeekNumber(date) ==
    LET thursday == IsoWeekMonday(date) + 3
    IN  (thursday - FirstThursday(GetFullYear(thursday))) \div 7 + 1

\* the days of the month shown, each as the Date handleSubmit makes of it
DaysShown ==
    {ParseYMD(formatDateToYMD(d)) :
        d \in Range(getDaysInMonth(GetFullYear(currentDate), GetMonth(currentDate)))}

\* C25: getWeek is the ISO 8601 week number (week 1 is the week of the year's
\* first Thursday), and two days of the month shown get the same number
\* exactly when they lie in the same Monday-to-Sunday week
C25_GetWeekIsIsoWeek ==
    /\ \A d \in DaysShown : getWeek(d) = IsoWeekNumber(d)
    /\ \A d1, d2 \in DaysShown :
          (getWeek(d1) = getWeek(d2)) <=> (IsoWeekMonday(d1) = IsoWeekMonday(d2))

\* a January whose first days belong to the last week of the year before: the
\* associate has submitted days of its weeks 1 and 2
C25_Witness ==
    /\ attempts > 0
    /\ GetMonth(currentDate) = 0
    /\ \E d \in DaysShown : getWeek(d) >= 52
    /\ {getWeek(ParseYMD(selectedDates[i])) : i \in 1..Len(selectedDates)} = {1, 2}

\* the calls of the pair of a settled call that were pending when it settled
OverlappingSamePair(r) ==
    {j \in DOMAIN r.overlapping :
        r.overlapping[j].userId = r.userId /\ r.overlapping[j].date = r.date}

\* the bookings and the waitlist entries of everybody but the pair
OfOthers(s, userId, date) == Filter(s, LAMBDA x : ~(x.userId = userId /\ x.date = date))

\* C26: of two confirmWaitlist calls for a pair that is on the waitlist, both
\* issued before either settles, the first to settle resolves, removes the
\* entry of the pair and adds exactly one confirmed booking, and every later
\* call for the pair is rejected and changes nothing; a call that resolves
\* while calls for other users are pending leaves their entries as they were.
C26_OverlappingConfirmsOneSuccess ==
    [][Len(confirmLog') = Len(confirmLog) + 1 =>
          LET r == Settled(confirmLog')
              before == {k \in 1..Len(confirmLog) :
                            /\ confirmLog[k].userId = r.userId
                            /\ confirmLog[k].date = r.date
                            /\ confirmLog[k].ok
                            /\ OverlappingSamePair(confirmLog[k]) # {}}
          IN  /\ (OverlappingSamePair(r) # {} /\ r.timestamp >= 0) =>
                    /\ r.ok
                    /\ WaitlistedOf(mockWaitlist', r.userId, r.date) = 0
                    /\ ConfirmedOf(mockBookings', r.userId, r.date)
                           = ConfirmedOf(mockBookings, r.userId, r.date) + 1
              /\ before # {} =>
                    /\ ~r.ok
                    /\ mockBookings' = mockBookings
                    /\ mockWaitlist' = mockWaitlist
              /\ OfOthers(mockWaitlist', r.userId, r.date)
                    = OfOthers(mockWaitlist, r.userId, r.date)
              /\ OfOthers(mockBookings', r.userId, r.date)
                    = OfOthers(mockBookings, r.userId, r.date)]_vars

\* two calls for one pair were pending together: the first resolved, the
\* second was rejected, and the pair has one more confirmed booking
C26_Witness ==
    /\ Len(confirmLog) = 2
    /\ confirmLog[1].userId = confirmLog[2].userId
    /\ confirmLog[1].date = confirmLog[2].date
    /\ OverlappingSamePair(confirmLog[1]) # {}
    /\ confirmLog[1].ok /\ ~confirmLog[2].ok
    /\ WaitlistedOf(mockWaitlist, confirmLog[1].userId, confirmLog[1].date) = 0

\* calls for two users on one date were pending together and both resolved
C26_DifferentUsersOverlap ==
    /\ Len(confirmLog) = 2
    /\ confirmLog[1].userId # confirmLog[2].userId
    /\ confirmLog[1].date = confirmLog[2].date
    /\ DOMAIN confirmLog[1].overlapping # {}
    /\ confirmLog[1].ok /\ confirmLog[2].ok

\* C27: while a submitBookings call of the associate is pending, the submit
\* button is disabled (isLoading, or nothing selected), so no second
\* submission of the selection can start.
C27_SubmitDisabledWhileInFlight ==
    PendingKind("submitBookings") # {} => (isLoading \/ Len(selectedDates) = 0)

\* two submissions of one selection are pending together
C27_TwoSubmissionsInFlight ==
    \E i, j \in PendingKind("submitBookings") : i < j /\ timers[i].dates = timers[j].dates

\* C28: the two read paths agree: for every location and every date of the
\* month shown, getBookingsForDate returns as many booked users as
\* getMonthlyBookingStatus counts bookings, and as many waitlisted users as it
\* counts waitlist entries.
C28_ReadPathsAgree ==
    \A l \in LocationIds :
        \E status \in {getMonthlyBookingStatus(mockBookings, mockWaitlist, l,
                            GetFullYear(currentDate), GetMonth(currentDate))} :
            \A d \in DOMAIN status :
                \E details \in {getBookingsForDate(mockBookings, mockWaitlist, d, l)} :
                    /\ Len(details.bookedUsers) = status[d].bookings
                    /\ Len(details.waitlistedUsers) = status[d].waitlist

RECURSIVE SumOfLocations(_, _, _)
\* the sum of a figure over locationStats[i..]
SumOfLocations(locationStats, figure, i) ==
    IF i > Len(locationStats) THEN 0
    ELSE locationStats[i][figure] + SumOfLocations(locationStats, figure, i + 1)

\* C29: in every reachable state the totals the dashboard shows equal the
\* sums of the per-location figures for the representative day:
\* totalBookedToday is the sum of booked, totalWaitlistedToday the sum of
\* waitlisted and totalCancellationsToday the sum of cancellationsToday over
\* all locations.
C29_TotalsAreSumsOfLocations ==
    stats.loaded =>
        /\ stats.totalBookedToday = SumOfLocations(stats.locationStats, "booked", 1)
        /\ stats.totalWaitlistedToday = SumOfLocations(stats.locationStats, "waitlisted", 1)
        /\ stats.totalCancellationsToday =
              SumOfLocations(stats.locationStats, "cancellationsToday", 1)

\* the step resolves a confirmWaitlist call
ConfirmResolved == Len(confirmLog') = Len(confirmLog) + 1 /\ Settled(confirmLog').ok

\* the step resolves a submitBookings call
SubmitResolved ==
    Cardinality(PendingKind("submitBookings")') < Cardinality(PendingKind("submitBookings"))

AdminCalendarMounted == IsAdmin /\ activeView = "calendar"

\* the details panel is not loading and shows the day selected as the ledger has it
DetailsShowLedger ==
    /\ ~isDetailsLoading
    /\ adminSelectedDate # 0 =>
          \E details \in {getBookingsForDate(mockBookings, mockWaitlist,
                                               adminSelectedDate, currentLocationId)} :
              dailyDetails = [loaded |-> TRUE, bookedUsers |-> details.bookedUsers,
                              waitlistedUsers |-> details.waitlistedUsers]

\* the calendar of the associate is not loading and shows the month as the ledger has it
StatusShowsLedger ==
    /\ ~isLoading
    /\ monthlyStatus = getMonthlyBookingStatus(mockBookings, mockWaitlist,
                                               UserById(currentUser).locationId,
                                               GetFullYear(currentDate), GetMonth(currentDate))

ShownIds(users) == {users[i] : i \in 1..Len(users)}

C30_SubmitRefreshed ==
    /\ IsAssociate
    /\ timers = <<>>
    /\ successMessage # 0
    /\ StatusShowsLedger
    /\ \E i \in 1..Len(mockBookings) :
          mockBookings[i].userId = currentUser /\ mockBookings[i].id >= nextBookingId - successMessage

\* both promotions resolved in the same millisecond: the second signal
\* carried the version of the first
C30_SameVersionTwice ==
    /\ Len(confirmLog) = 2
    /\ \A k \in 1..2 : confirmLog[k].ok
    /\ dataVersion = now
    /\ Cardinality(PendingKind("getBookingsForDate")) = 1
    /\ isDetailsLoading

====
